---- MODULE Spec2Model ----
(***************************************************************************)
(* Model of the plotting utilities of neuralprophet:                       *)
(*   plot_model_parameters.py  (plot_parameters and its panel renderers)    *)
(*   plot_forecast_plotly.py   (plot_components and its panel renderers)    *)
(*                                                                         *)
(* Python strings that the code formats, lowercases or searches are        *)
(* modelled as sequences of one-character strings, so that formatting,     *)
(* lower() and the substring tests are computed rather than assumed.       *)
(* Identifiers that are only compared for equality (df_name, modes) are    *)
(* plain strings.  Python None is NoName for a df_name and NoFocus for a   *)
(* forecast_in_focus (forecast steps are numbered from 1).                 *)
(***************************************************************************)
EXTENDS Integers, Sequences, FiniteSets, TLC

(***************************************************************************)
(* Bounds of the model.                                                    *)
(***************************************************************************)
\* largest n_forecasts of a model configuration
MaxForecasts == 2
\* number of plot_parameters calls one caller issues
MaxCalls == 2
\* largest number of (name, weights) entries handed to plot_scalar_weights
MaxEntries == 2
\* number of rows of a forecast table
MaxRows == 3

NoName == "<None>"
NoFocus == 0
NoRolling == 0

(***************************************************************************)
(* String literals of the source.                                          *)
(***************************************************************************)
\* the string literals of plot_model_parameters.py, character by character
PM ==
  [Trend |-> <<"T", "r", "e", "n", "d">>,
   TrendRateChange |-> <<"T", "r", "e", "n", "d", " ", "R", "a", "t", "e", " ", "C", "h", "a", "n", "g", "e">>,
   Seasonality |-> <<"s", "e", "a", "s", "o", "n", "a", "l", "i", "t", "y">>,
   LaggedWeights |-> <<"l", "a", "g", "g", "e", "d", " ", "w", "e", "i", "g", "h", "t", "s">>,
   AR |-> <<"A", "R">>,
   LaggedRegressorQ |-> <<"L", "a", "g", "g", "e", "d", " ", "R", "e", "g", "r", "e", "s", "s", "o", "r", " ", "\"">>,
   Quote |-> <<"\"">>,
   AdditiveFutureRegressor |-> <<"A", "d", "d", "i", "t", "i", "v", "e", " ", "f", "u", "t", "u", "r", "e", " ", "r", "e", "g", "r", "e", "s", "s", "o", "r">>,
   MultiplicativeFutureRegressor |-> <<"M", "u", "l", "t", "i", "p", "l", "i", "c", "a", "t", "i", "v", "e", " ", "f", "u", "t", "u", "r", "e", " ", "r", "e", "g", "r", "e", "s", "s", "o", "r">>,
   LaggedScalarRegressor |-> <<"L", "a", "g", "g", "e", "d", " ", "s", "c", "a", "l", "a", "r", " ", "r", "e", "g", "r", "e", "s", "s", "o", "r">>,
   AdditiveEvent |-> <<"A", "d", "d", "i", "t", "i", "v", "e", " ", "e", "v", "e", "n", "t">>,
   MultiplicativeEvent |-> <<"M", "u", "l", "t", "i", "p", "l", "i", "c", "a", "t", "i", "v", "e", " ", "e", "v", "e", "n", "t">>,
   trend |-> <<"t", "r", "e", "n", "d">>,
   change |-> <<"c", "h", "a", "n", "g", "e">>,
   weekly |-> <<"w", "e", "e", "k", "l", "y">>,
   yearly |-> <<"y", "e", "a", "r", "l", "y">>,
   daily |-> <<"d", "a", "i", "l", "y">>,
   additive_future_regressor |-> <<"a", "d", "d", "i", "t", "i", "v", "e", " ", "f", "u", "t", "u", "r", "e", " ", "r", "e", "g", "r", "e", "s", "s", "o", "r">>,
   multiplicative_future_regressor |-> <<"m", "u", "l", "t", "i", "p", "l", "i", "c", "a", "t", "i", "v", "e", " ", "f", "u", "t", "u", "r", "e", " ", "r", "e", "g", "r", "e", "s", "s", "o", "r">>,
   lagged_scalar_regressor |-> <<"l", "a", "g", "g", "e", "d", " ", "s", "c", "a", "l", "a", "r", " ", "r", "e", "g", "r", "e", "s", "s", "o", "r">>,
   additive_event |-> <<"a", "d", "d", "i", "t", "i", "v", "e", " ", "e", "v", "e", "n", "t">>,
   multiplicative_event |-> <<"m", "u", "l", "t", "i", "p", "l", "i", "c", "a", "t", "i", "v", "e", " ", "e", "v", "e", "n", "t">>,
   lagged |-> <<"l", "a", "g", "g", "e", "d">>]

\* the string literals of plot_forecast_plotly.py, character by character
PF ==
  [SpSeasonality |-> <<" ", "s", "e", "a", "s", "o", "n", "a", "l", "i", "t", "y">>,
   AutoRegression |-> <<"A", "u", "t", "o", "-", "R", "e", "g", "r", "e", "s", "s", "i", "o", "n">>,
   ar |-> <<"a", "r">>,
   ARParen |-> <<"A", "R", " ", "(">>,
   ParenAhead |-> <<")", "-", "a", "h", "e", "a", "d">>,
   QuoteSpParen |-> <<"\"", " ", "(">>,
   lagged_regressor_ |-> <<"l", "a", "g", "g", "e", "d", "_", "r", "e", "g", "r", "e", "s", "s", "o", "r", "_">>,
   AdditiveEvents |-> <<"A", "d", "d", "i", "t", "i", "v", "e", " ", "E", "v", "e", "n", "t", "s">>,
   events_additive |-> <<"e", "v", "e", "n", "t", "s", "_", "a", "d", "d", "i", "t", "i", "v", "e">>,
   MultiplicativeEvents |-> <<"M", "u", "l", "t", "i", "p", "l", "i", "c", "a", "t", "i", "v", "e", " ", "E", "v", "e", "n", "t", "s">>,
   events_multiplicative |-> <<"e", "v", "e", "n", "t", "s", "_", "m", "u", "l", "t", "i", "p", "l", "i", "c", "a", "t", "i", "v", "e">>,
   AdditiveFutureRegressors |-> <<"A", "d", "d", "i", "t", "i", "v", "e", " ", "F", "u", "t", "u", "r", "e", " ", "R", "e", "g", "r", "e", "s", "s", "o", "r", "s">>,
   future_regressors_additive |-> <<"f", "u", "t", "u", "r", "e", "_", "r", "e", "g", "r", "e", "s", "s", "o", "r", "s", "_", "a", "d", "d", "i", "t", "i", "v", "e">>,
   MultiplicativeFutureRegressors |-> <<"M", "u", "l", "t", "i", "p", "l", "i", "c", "a", "t", "i", "v", "e", " ", "F", "u", "t", "u", "r", "e", " ", "R", "e", "g", "r", "e", "s", "s", "o", "r", "s">>,
   future_regressors_multiplicative |-> <<"f", "u", "t", "u", "r", "e", "_", "r", "e", "g", "r", "e", "s", "s", "o", "r", "s", "_", "m", "u", "l", "t", "i", "p", "l", "i", "c", "a", "t", "i", "v", "e">>,
   Residuals |-> <<"R", "e", "s", "i", "d", "u", "a", "l", "s">>,
   residual |-> <<"r", "e", "s", "i", "d", "u", "a", "l">>,
   ResidualsParen |-> <<"R", "e", "s", "i", "d", "u", "a", "l", "s", " ", "(">>,
   Uncertainty |-> <<"U", "n", "c", "e", "r", "t", "a", "i", "n", "t", "y">>,
   yhat |-> <<"y", "h", "a", "t">>,
   Space |-> <<" ">>,
   Percent |-> <<"%">>,
   Dot |-> <<".">>,
   ds |-> <<"d", "s">>,
   y |-> <<"y">>,
   residuals |-> <<"r", "e", "s", "i", "d", "u", "a", "l", "s">>,
   ahead |-> <<"a", "h", "e", "a", "d">>,
   lagged_regressor |-> <<"l", "a", "g", "g", "e", "d", "_", "r", "e", "g", "r", "e", "s", "s", "o", "r">>,
   uncertainty |-> <<"u", "n", "c", "e", "r", "t", "a", "i", "n", "t", "y">>,
   event |-> <<"e", "v", "e", "n", "t">>,
   future_regressor |-> <<"f", "u", "t", "u", "r", "e", " ", "r", "e", "g", "r", "e", "s", "s", "o", "r">>,
   season |-> <<"s", "e", "a", "s", "o", "n">>,
   auto_regression |-> <<"a", "u", "t", "o", "-", "r", "e", "g", "r", "e", "s", "s", "i", "o", "n">>,
   lagged_regressor_sp |-> <<"l", "a", "g", "g", "e", "d", " ", "r", "e", "g", "r", "e", "s", "s", "o", "r">>,
   season_ |-> <<"s", "e", "a", "s", "o", "n", "_">>,
   SeasonalityColon |-> <<"S", "e", "a", "s", "o", "n", "a", "l", "i", "t", "y", ":", " ">>,
   DayOf |-> <<"D", "a", "y", " ", "o", "f", " ">>,
   ly |-> <<"l", "y">>,
   origin_ |-> <<"o", "r", "i", "g", "i", "n", "-">>,
   Predicted |-> <<"P", "r", "e", "d", "i", "c", "t", "e", "d">>,
   Actual |-> <<"A", "c", "t", "u", "a", "l">>]

(***************************************************************************)
(* str methods and formatting.                                             *)
(***************************************************************************)
\* the letters str.lower() changes (ASCII)
UpperToLower ==
  [A |-> "a", B |-> "b", C |-> "c", D |-> "d", E |-> "e", F |-> "f", G |-> "g",
   H |-> "h", I |-> "i", J |-> "j", K |-> "k", L |-> "l", M |-> "m", N |-> "n",
   O |-> "o", P |-> "p", Q |-> "q", R |-> "r", S |-> "s", T |-> "t", U |-> "u",
   V |-> "v", W |-> "w", X |-> "x", Y |-> "y", Z |-> "z"]

\* str.lower()
Lower(s) == [i \in 1..Len(s) |-> IF s[i] \in DOMAIN UpperToLower THEN UpperToLower[s[i]] ELSE s[i]]

\* str.startswith(p)
StartsWith(s, p) == Len(p) <= Len(s) /\ SubSeq(s, 1, Len(p)) = p

\* the Python test  p in s  on two strings
Contains(s, p) ==
  \/ Len(p) = 0
  \/ \E k \in 0..(Len(s) - Len(p)) : s[k + 1] = p[1] /\ SubSeq(s, k + 1, k + Len(p)) = p


Digits == <<"0", "1", "2", "3", "4", "5", "6", "7", "8", "9">>

\* str(n) of a natural number, as the f-strings format it
RECURSIVE IntToStr(_)
IntToStr(n) == IF n < 10 THEN <<Digits[n + 1]>> ELSE IntToStr(n \div 10) \o <<Digits[(n % 10) + 1]>>

(***************************************************************************)
(* numpy arrays: a shape and the elements in row-major order.              *)
(***************************************************************************)
\* a 0-d array holding x
Scalar(x) == [shape |-> <<>>, data |-> <<x>>]

\* a 1-d array
Vector(xs) == [shape |-> <<Len(xs)>>, data |-> xs]

\* a 2-d array of r rows, given row by row
Matrix(r, xs) == [shape |-> <<r, Len(xs) \div r>>, data |-> xs]

\* np.squeeze(a): drops the axes of length one
Squeeze(a) == [shape |-> SelectSeq(a.shape, LAMBDA d : d # 1), data |-> a.data]

\* a[i, :] of a 2-d array, i counted from 0
Row(a, i) == [shape |-> <<a.shape[2]>>, data |-> SubSeq(a.data, i * a.shape[2] + 1, (i + 1) * a.shape[2])]

\* a * scale
Times(a, scale) == [shape |-> a.shape, data |-> [k \in 1..Len(a.data) |-> a.data[k] * scale]]

RECURSIVE SumSeq(_)
SumSeq(xs) == IF Len(xs) = 0 THEN 0 ELSE Head(xs) + SumSeq(Tail(xs))

\* a number as an exact fraction; np.mean(w) is Frac(sum, len)
Frac(n, d) == [num |-> n, den |-> d]

(***************************************************************************)
(* plot_scalar_weights                                                     *)
(***************************************************************************)
\* the loop body without the test of the number of dimensions
ScalarValue_any_shape(w, focus) ==
  LET weight == Squeeze(w) IN
  IF Len(weight.data) > 1
  THEN IF focus # NoFocus /\ focus - 1 < Len(weight.data)
       THEN [raised |-> "none", value |-> Frac(weight.data[focus], 1)]
       ELSE [raised |-> "none", value |-> Frac(SumSeq(weight.data), Len(weight.data))]
  ELSE [raised |-> "none", value |-> Frac(weight.data[1], 1)]

\* the body of the loop over (name, weights): the value appended to values,
\* or the exception raised
ScalarValue(w, focus) ==
  LET weight == Squeeze(w) IN
  IF Len(weight.shape) > 1 THEN [raised |-> "ValueError"]
  ELSE IF Len(weight.shape) = 1 /\ weight.shape[1] > 1
       THEN IF focus # NoFocus
            THEN \* weight[focus - 1], with Python's negative indices
                 LET n == weight.shape[1]
                     i == focus - 1
                 IN  IF i >= 0 /\ i < n THEN [raised |-> "none", value |-> Frac(weight.data[i + 1], 1)]
                     ELSE IF i < 0 /\ i >= -n THEN [raised |-> "none", value |-> Frac(weight.data[n + i + 1], 1)]
                     ELSE [raised |-> "IndexError"]
            ELSE [raised |-> "none", value |-> Frac(SumSeq(weight.data), Len(weight.data))]
       ELSE [raised |-> "none", value |-> Frac(weight.data[1], 1)]

\* the loop of plot_scalar_weights over entries k..Len(weights)
RECURSIVE ScalarLoop(_, _, _, _)
ScalarLoop(weights, focus, k, acc) ==
  IF k > Len(weights) THEN acc
  ELSE LET v == ScalarValue(weights[k].weights, focus) IN
       IF v.raised # "none"
       THEN [acc EXCEPT !.raised = v.raised, !.names = Append(@, weights[k].name)]
       ELSE ScalarLoop(weights, focus, k + 1,
                       [acc EXCEPT !.names = Append(@, weights[k].name), !.values = Append(@, v.value)])

\* plot_scalar_weights(weights, plot_name, focus, ax): the bars drawn on ax and
\* the axis labels, or the exception raised before anything is drawn
plot_scalar_weights(weights, plot_name, focus) ==
  LET r == ScalarLoop(weights, focus, 1, [raised |-> "none", names |-> <<>>, values |-> <<>>]) IN
  IF r.raised # "none" THEN [raised |-> r.raised, bars |-> <<>>]
  ELSE [raised |-> "none",
        bars |-> [k \in 1..Len(r.names) |-> [x |-> r.names[k], height |-> r.values[k]]],
        ylabel |-> IF Contains(Lower(plot_name), PM.lagged)
                   THEN (IF focus = NoFocus THEN "weight (avg)" ELSE "weight (focus)-ahead")
                   ELSE "weight"]

(***************************************************************************)
(* The fitted model m, as far as the plotting code reads it.               *)
(***************************************************************************)
\* the names that the models under study give to seasonalities, regressors and events
Names ==
  [weekly |-> <<"w", "e", "e", "k", "l", "y">>,
   hourly |-> <<"h", "o", "u", "r", "l", "y">>,
   temp |-> <<"t", "e", "m", "p">>,
   rain |-> <<"r", "a", "i", "n">>,
   sale |-> <<"s", "a", "l", "e">>,
   fair |-> <<"f", "a", "i", "r">>,
   xmas |-> <<"x", "m", "a", "s">>,
   wind |-> <<"w", "i", "n", "d">>,
   load |-> <<"l", "o", "a", "d">>]

\* a lookup that answers 0 for a value that is not in the list
ListIndex_default(list, x) ==
  IF \E k \in 1..Len(list) : list[k] = x
  THEN (CHOOSE k \in 1..Len(list) : list[k] = x /\ \A j \in 1..(k - 1) : list[j] # x) - 1
  ELSE 0

\* m.model.quantiles.index(quantile), counted from 0; -1 stands for the
\* ValueError that list.index raises when the value is not in the list
ListIndex(list, x) ==
  IF \E k \in 1..Len(list) : list[k] = x
  THEN (CHOOSE k \in 1..Len(list) : list[k] = x /\ \A j \in 1..(k - 1) : list[j] # x) - 1
  ELSE -1

\* the learned weight of the entry at position pos of its configuration, for
\* quantile index qi and output step j (input data: any distinct values do)
LearnedWeight(pos, qi, j) == 100 * pos + 10 * (qi + 1) + j

\* an array of shape (rows, cols) of learned weights
WeightArray(pos, rows, cols) ==
  Matrix(rows, [k \in 1..(rows * cols) |-> LearnedWeight(pos, (k - 1) \div cols, ((k - 1) % cols) + 1)])

\* m.model.get_reg_weights(regressor): one column per regressor, one row per quantile
get_reg_weights(m, pos) == WeightArray(pos, Len(m.quantiles), 1)

\* m.model.get_event_weights(event): a dict, here of the single key `event`
get_event_weights(m, pos, event) == <<[key |-> event, param |-> WeightArray(pos, Len(m.quantiles), 1)]>>

\* m.model.get_covar_weights(name): one row per forecast step, one column per lag
get_covar_weights(m, pos) == WeightArray(pos, m.n_forecasts, m.config_lagged_regressors[pos].n_lags)

\* m.config_normalization.get_data_params(df_name): the parameters, or the
\* ValueError raised when the series is unknown and unknown series are not allowed
get_data_params(m, unknown_ok, df_name) ==
  IF m.global_normalization THEN [raised |-> "none", params |-> m.global_data_params]
  ELSE IF df_name \in DOMAIN m.local_data_params THEN [raised |-> "none", params |-> m.local_data_params[df_name]]
  ELSE IF unknown_ok THEN [raised |-> "none", params |-> m.global_data_params]
  ELSE [raised |-> "ValueError"]

\* one normalization lookup as the code performs it: the identifier asked
\* for, the value of unknown_data_normalization at that moment, the source
\* line, and whether get_data_params answered
Lookup(m, unknown_ok, df_name, line) ==
  [df_name |-> df_name, unknown_ok |-> unknown_ok, line |-> line,
   ok |-> get_data_params(m, unknown_ok, df_name).raised = "none"]

(***************************************************************************)
(* plot_parameters, lines 79-102: choice of the series identifier          *)
(***************************************************************************)
\* pp_setup without the fallback to the default identifier
pp_setup_keeps_name(m, unknown_ok, df_name) ==
  IF m.global_normalization
  THEN [df_name |-> IF df_name = NoName THEN "__df__" ELSE df_name, warnings |-> 0, overwriting |-> FALSE]
  ELSE IF df_name = NoName \/ df_name \notin DOMAIN m.local_data_params
       THEN [df_name |-> df_name, warnings |-> 1, overwriting |-> ~unknown_ok]
       ELSE [df_name |-> df_name, warnings |-> 0, overwriting |-> FALSE]

\* pp_setup that falls back without allowing unknown series
pp_setup_no_flip(m, unknown_ok, df_name) ==
  IF m.global_normalization
  THEN [df_name |-> IF df_name = NoName THEN "__df__" ELSE df_name, warnings |-> 0, overwriting |-> FALSE]
  ELSE IF df_name = NoName \/ df_name \notin DOMAIN m.local_data_params
       THEN [df_name |-> "__df__", warnings |-> 1, overwriting |-> FALSE]
       ELSE [df_name |-> df_name, warnings |-> 0, overwriting |-> FALSE]

\* the identifier used in the rest of the call, the warnings logged, and
\* whether unknown_data_normalization is overwritten with True
pp_setup(m, unknown_ok, df_name) ==
  IF m.global_normalization
  THEN [df_name |-> IF df_name = NoName THEN "__df__" ELSE df_name, warnings |-> 0, overwriting |-> FALSE]
  ELSE IF df_name = NoName \/ df_name \notin DOMAIN m.local_data_params
       THEN [df_name |-> "__df__", warnings |-> 1, overwriting |-> ~unknown_ok]
       ELSE [df_name |-> df_name, warnings |-> 0, overwriting |-> FALSE]

(***************************************************************************)
(* plot_parameters, lines 104-197: the components to plot                  *)
(***************************************************************************)
\* lines 106-123: trend, trend rate change, seasonalities, AR
pp_model_components(m, focus) ==
  <<[plot_name |-> PM.Trend]>>
  \o (IF m.n_changepoints > 0 THEN <<[plot_name |-> PM.TrendRateChange]>> ELSE <<>>)
  \o [k \in 1..Len(m.config_season) |-> [plot_name |-> PM.Seasonality, comp_name |-> m.config_season[k].name]]
  \o (IF m.n_lags > 0
      THEN <<[plot_name |-> PM.LaggedWeights, comp_name |-> PM.AR, focus |-> focus]>>
      ELSE <<>>)

\* lines 131-140: (name, weights) of the future regressors of one mode
pp_future_regressors(m, quantile_index, mode) ==
  LET R == m.config_regressors
      all == [k \in 1..Len(R) |-> [name |-> R[k].name, mode |-> R[k].mode,
                                   weights |-> Row(get_reg_weights(m, k), quantile_index)]]
  IN  SelectSeq(all, LAMBDA e : (e.mode = "additive") <=> (mode = "additive"))

\* lines 142-165: (key, weights) of the events of one mode, country holidays first
pp_events(m, quantile_index, mode) ==
  LET H == m.config_country_holidays
      E == m.config_events
      all == [k \in 1..Len(H) |-> [name |-> get_event_weights(m, k, H[k].name)[1].key, mode |-> H[k].mode,
                                   weights |-> Row(get_event_weights(m, k, H[k].name)[1].param, quantile_index)]]
             \o [k \in 1..Len(E) |-> [name |-> get_event_weights(m, Len(H) + k, E[k].name)[1].key, mode |-> E[k].mode,
                                      weights |-> Row(get_event_weights(m, Len(H) + k, E[k].name)[1].param, quantile_index)]]
  IN  SelectSeq(all, LAMBDA e : (e.mode = "additive") <=> (mode = "additive"))

\* lines 168-172: (name, weights) of the lagged regressors plotted as scalars
pp_lagged_scalar_regressors(m) ==
  LET L == m.config_lagged_regressors
      all == [k \in 1..Len(L) |-> [name |-> L[k].name, as_scalar |-> L[k].as_scalar,
                                   weights |-> get_covar_weights(m, k)]]
  IN  SelectSeq(all, LAMBDA e : e.as_scalar)

\* lines 173-181: one lagged-weights component per other lagged regressor
pp_lagged_components(m, focus) ==
  LET L == m.config_lagged_regressors
      all == [k \in 1..Len(L) |-> [plot_name |-> PM.LaggedWeights, as_scalar |-> L[k].as_scalar,
                                   comp_name |-> PM.LaggedRegressorQ \o L[k].name \o PM.Quote,
                                   focus |-> focus]]
      kept == SelectSeq(all, LAMBDA e : ~e.as_scalar)
  IN  [k \in 1..Len(kept) |-> [plot_name |-> kept[k].plot_name, comp_name |-> kept[k].comp_name, focus |-> kept[k].focus]]

\* the aggregated panels with the events appended before the future regressors
pp_aggregate_components_events_first(n_add_reg, n_mul_reg, n_lag_scalar, n_add_ev, n_mul_ev) ==
  (IF n_lag_scalar > 0 THEN <<[plot_name |-> PM.LaggedScalarRegressor]>> ELSE <<>>)
  \o (IF n_add_ev > 0 THEN <<[plot_name |-> PM.AdditiveEvent]>> ELSE <<>>)
  \o (IF n_mul_ev > 0 THEN <<[plot_name |-> PM.MultiplicativeEvent]>> ELSE <<>>)
  \o (IF n_add_reg > 0 THEN <<[plot_name |-> PM.AdditiveFutureRegressor]>> ELSE <<>>)
  \o (IF n_mul_reg > 0 THEN <<[plot_name |-> PM.MultiplicativeFutureRegressor]>> ELSE <<>>)

\* lines 183-195: the aggregated panels, appended in this order
pp_aggregate_components(n_add_reg, n_mul_reg, n_lag_scalar, n_add_ev, n_mul_ev) ==
  (IF n_add_reg > 0 THEN <<[plot_name |-> PM.AdditiveFutureRegressor]>> ELSE <<>>)
  \o (IF n_mul_reg > 0 THEN <<[plot_name |-> PM.MultiplicativeFutureRegressor]>> ELSE <<>>)
  \o (IF n_lag_scalar > 0 THEN <<[plot_name |-> PM.LaggedScalarRegressor]>> ELSE <<>>)
  \o (IF n_add_ev > 0 THEN <<[plot_name |-> PM.AdditiveEvent]>> ELSE <<>>)
  \o (IF n_mul_ev > 0 THEN <<[plot_name |-> PM.MultiplicativeEvent]>> ELSE <<>>)

\* lines 104-197: the component list and the weight lists, or the exception
\* raised on the way, with the normalization lookups performed
pp_select(m, unknown_ok, quantile, focus, df_name) ==
  LET quantile_index == ListIndex(m.quantiles, quantile) IN
  IF quantile_index = -1
  THEN [raised |-> "ValueError", lookups |-> <<>>, components |-> pp_model_components(m, focus)]
  ELSE
    LET additive_future_regressors == pp_future_regressors(m, quantile_index, "additive")
        multiplicative_future_regressors == pp_future_regressors(m, quantile_index, "multiplicative")
        additive_events == pp_events(m, quantile_index, "additive")
        multiplicative_events == pp_events(m, quantile_index, "multiplicative")
        lagged_scalar_regressors == pp_lagged_scalar_regressors(m)
        lookups == IF Len(additive_events) > 0 THEN <<Lookup(m, unknown_ok, df_name, 190)>> ELSE <<>>
        components == pp_model_components(m, focus)
                      \o pp_lagged_components(m, focus)
                      \o pp_aggregate_components(Len(additive_future_regressors), Len(multiplicative_future_regressors),
                                                 Len(lagged_scalar_regressors), Len(additive_events),
                                                 Len(multiplicative_events))
    IN  IF Len(lookups) > 0 /\ ~lookups[1].ok
        THEN [raised |-> "ValueError", lookups |-> lookups, components |-> components]
        ELSE [raised |-> "none", lookups |-> lookups, components |-> components,
              additive_future_regressors |-> additive_future_regressors,
              multiplicative_future_regressors |-> multiplicative_future_regressors,
              lagged_scalar_regressors |-> lagged_scalar_regressors,
              additive_events |->
                [k \in 1..Len(additive_events) |->
                   [additive_events[k] EXCEPT !.weights = Times(@, get_data_params(m, unknown_ok, df_name).params.y_scale)]],
              multiplicative_events |-> multiplicative_events]

(***************************************************************************)
(* plot_parameters, lines 203-237: one panel per component                 *)
(***************************************************************************)
\* the lookups a renderer performs at the given source lines: all of them,
\* or only the first when get_data_params raises there
DoLookups(m, unknown_ok, df_name, lines) ==
  LET all == [k \in 1..Len(lines) |-> Lookup(m, unknown_ok, df_name, lines[k])] IN
  IF Len(all) > 0 /\ ~all[1].ok THEN <<all[1]>> ELSE all

\* the renderer that lines 214-221 choose for a seasonality
pp_season_renderer(m, name) ==
  LET period == (CHOOSE c \in {m.config_season[k] : k \in 1..Len(m.config_season)} : c.name = name).period IN
  IF Lower(name) = PM.weekly \/ period = 700 THEN "plot_weekly"
  ELSE IF Lower(name) = PM.yearly \/ period = 36525 THEN "plot_yearly"
  ELSE IF Lower(name) = PM.daily \/ period = 100 THEN "plot_daily"
  ELSE "plot_custom_season"

\* the body of the loop for component comp on axis ax: the renderer called,
\* the identifier passed to it, its lookups, what it draws, whether the axis
\* joins multiplicative_axes, and the exception it raises
pp_render(m, unknown_ok, sel, comp, ax, focus, df_name) ==
  LET plot_name == Lower(comp.plot_name) IN
  IF StartsWith(plot_name, PM.trend)
  THEN IF Contains(plot_name, PM.change)
       THEN LET lk == DoLookups(m, unknown_ok, df_name, <<285>>) IN
            [renderer |-> "plot_trend_change", ax |-> ax, plot_name |-> comp.plot_name, df_name |-> df_name,
             lookups |-> lk, multiplicative |-> FALSE, bars |-> <<>>,
             raised |-> IF lk[Len(lk)].ok THEN "none" ELSE "ValueError"]
       ELSE LET lk == DoLookups(m, unknown_ok, df_name, IF m.n_changepoints = 0 THEN <<350, 365>> ELSE <<350>>) IN
            [renderer |-> "plot_trend", ax |-> ax, plot_name |-> comp.plot_name, df_name |-> df_name,
             lookups |-> lk, multiplicative |-> FALSE, bars |-> <<>>,
             raised |-> IF lk[Len(lk)].ok THEN "none" ELSE "ValueError"]
  ELSE IF StartsWith(plot_name, PM.Seasonality)
  THEN LET renderer == pp_season_renderer(m, comp.comp_name)
           line == IF renderer = "plot_custom_season" THEN 518 ELSE 540
           lk == DoLookups(m, unknown_ok, df_name, IF m.season_mode = "additive" THEN <<line>> ELSE <<>>)
       IN  [renderer |-> renderer, ax |-> ax, plot_name |-> comp.plot_name, df_name |-> df_name,
            lookups |-> lk, multiplicative |-> (m.season_mode = "multiplicative"), bars |-> <<>>,
            raised |-> IF Len(lk) > 0 /\ ~lk[Len(lk)].ok THEN "ValueError" ELSE "none"]
  ELSE IF plot_name = PM.LaggedWeights
  THEN [renderer |-> "plot_lagged_weights", ax |-> ax, plot_name |-> comp.plot_name, df_name |-> NoName,
        lookups |-> <<>>, multiplicative |-> FALSE, bars |-> <<>>, raised |-> "none"]
  ELSE LET weights == IF plot_name = PM.additive_future_regressor THEN sel.additive_future_regressors
                      ELSE IF plot_name = PM.multiplicative_future_regressor THEN sel.multiplicative_future_regressors
                      ELSE IF plot_name = PM.lagged_scalar_regressor THEN sel.lagged_scalar_regressors
                      ELSE IF plot_name = PM.additive_event THEN sel.additive_events
                      ELSE sel.multiplicative_events
           drawn == plot_scalar_weights(weights, comp.plot_name, focus)
       IN  [renderer |-> "plot_scalar_weights", ax |-> ax, plot_name |-> comp.plot_name, df_name |-> NoName,
            lookups |-> <<>>,
            multiplicative |-> (plot_name = PM.multiplicative_future_regressor \/ plot_name = PM.multiplicative_event),
            bars |-> drawn.bars, raised |-> drawn.raised]

\* a return that leaves the flag as the call set it
pp_reset_never(unknown_ok, overwriting) == unknown_ok

\* lines 242-244: the value of unknown_data_normalization when the call returns
pp_reset(unknown_ok, overwriting) == IF overwriting THEN FALSE ELSE unknown_ok

(***************************************************************************)
(* The forecast table: a function from column names to columns.  A cell is *)
(* <<v>> for the value v and <<>> for a missing value (NaN).               *)
(***************************************************************************)
NaN == <<>>

\* pandas Series.count(): the number of cells that are not missing
Count(col) == Cardinality({r \in 1..Len(col) : col[r] # NaN})

\* the column names that plot_components and the renderers format
ColAR(h) == PF.ar \o IntToStr(h)
ColLagged(name, h) == PF.lagged_regressor_ \o name \o IntToStr(h)
ColResidual(h) == PF.residual \o IntToStr(h)
ColYhat(h) == PF.yhat \o IntToStr(h)

\* round(q * 100, 1) of a quantile given in per mille, as the f-string prints it
FormatPct(q) == IntToStr(q \div 10) \o PF.Dot \o IntToStr(q % 10)

\* f"yhat{h} {round(q * 100, 1)}%"
ColQuantile(h, q) == PF.yhat \o IntToStr(h) \o PF.Space \o FormatPct(q) \o PF.Percent

(***************************************************************************)
(* plot_components, lines 245-373: the components to plot                  *)
(***************************************************************************)
\* lines 249-298: trend, seasonalities, autoregression, lagged regressors
pc_model_components(m, focus) ==
  <<[plot_name |-> PM.Trend, comp_name |-> PM.trend]>>
  \o [k \in 1..Len(m.config_season) |->
        [plot_name |-> m.config_season[k].name \o PF.SpSeasonality, comp_name |-> m.config_season[k].name]]
  \o (IF m.n_lags > 0
      THEN IF focus = NoFocus
           THEN <<[plot_name |-> PF.AutoRegression, comp_name |-> PF.ar, num_overplot |-> m.n_forecasts, bar |-> TRUE]>>
           ELSE <<[plot_name |-> PF.ARParen \o IntToStr(focus) \o PF.ParenAhead, comp_name |-> ColAR(focus)]>>
      ELSE <<>>)
  \o [k \in 1..Len(m.config_lagged_regressors) |->
        IF focus = NoFocus
        THEN [plot_name |-> PM.LaggedRegressorQ \o m.config_lagged_regressors[k].name \o PM.Quote,
              comp_name |-> PF.lagged_regressor_ \o m.config_lagged_regressors[k].name,
              num_overplot |-> m.n_forecasts, bar |-> TRUE]
        ELSE [plot_name |-> PM.LaggedRegressorQ \o m.config_lagged_regressors[k].name \o PF.QuoteSpParen
                            \o IntToStr(focus) \o PF.ParenAhead,
              comp_name |-> ColLagged(m.config_lagged_regressors[k].name, focus)]]

\* the aggregates with the future regressors appended before the events
pc_aggregate_components_regressors_first(table) ==
  (IF PF.future_regressors_additive \in DOMAIN table
   THEN <<[plot_name |-> PF.AdditiveFutureRegressors, comp_name |-> PF.future_regressors_additive]>> ELSE <<>>)
  \o (IF PF.future_regressors_multiplicative \in DOMAIN table
      THEN <<[plot_name |-> PF.MultiplicativeFutureRegressors, comp_name |-> PF.future_regressors_multiplicative,
              multiplicative |-> TRUE]>> ELSE <<>>)
  \o (IF PF.events_additive \in DOMAIN table
      THEN <<[plot_name |-> PF.AdditiveEvents, comp_name |-> PF.events_additive]>> ELSE <<>>)
  \o (IF PF.events_multiplicative \in DOMAIN table
      THEN <<[plot_name |-> PF.MultiplicativeEvents, comp_name |-> PF.events_multiplicative,
              multiplicative |-> TRUE]>> ELSE <<>>)

\* lines 300-332: the event and future-regressor aggregates in the table
pc_aggregate_components(table) ==
  (IF PF.events_additive \in DOMAIN table
   THEN <<[plot_name |-> PF.AdditiveEvents, comp_name |-> PF.events_additive]>> ELSE <<>>)
  \o (IF PF.events_multiplicative \in DOMAIN table
      THEN <<[plot_name |-> PF.MultiplicativeEvents, comp_name |-> PF.events_multiplicative,
              multiplicative |-> TRUE]>> ELSE <<>>)
  \o (IF PF.future_regressors_additive \in DOMAIN table
      THEN <<[plot_name |-> PF.AdditiveFutureRegressors, comp_name |-> PF.future_regressors_additive]>> ELSE <<>>)
  \o (IF PF.future_regressors_multiplicative \in DOMAIN table
      THEN <<[plot_name |-> PF.MultiplicativeFutureRegressors, comp_name |-> PF.future_regressors_multiplicative,
              multiplicative |-> TRUE]>> ELSE <<>>)

\* the residual entry appended without counting the values of its column
pc_residual_components_unchecked(m, table, focus, residuals) ==
  IF ~residuals THEN [raised |-> "none", components |-> <<>>]
  ELSE IF focus = NoFocus /\ m.n_forecasts > 1
  THEN IF ColResidual(1) \notin DOMAIN table THEN [raised |-> "KeyError", components |-> <<>>]
       ELSE [raised |-> "none",
             components |-> <<[plot_name |-> PF.Residuals, comp_name |-> PF.residual,
                               num_overplot |-> m.n_forecasts, bar |-> TRUE]>>]
  ELSE LET ahead == IF focus = NoFocus THEN 1 ELSE focus IN
       IF ColResidual(ahead) \notin DOMAIN table THEN [raised |-> "KeyError", components |-> <<>>]
       ELSE [raised |-> "none",
             components |-> <<[plot_name |-> PF.ResidualsParen \o IntToStr(ahead) \o PF.ParenAhead,
                               comp_name |-> ColResidual(ahead), bar |-> TRUE]>>]

\* lines 333-353: the residual entry, or the KeyError of a missing column
pc_residual_components(m, table, focus, residuals) ==
  IF ~residuals THEN [raised |-> "none", components |-> <<>>]
  ELSE IF focus = NoFocus /\ m.n_forecasts > 1
  THEN IF ColResidual(1) \notin DOMAIN table THEN [raised |-> "KeyError", components |-> <<>>]
       ELSE [raised |-> "none",
             components |-> IF Count(table[ColResidual(1)]) > 0
                            THEN <<[plot_name |-> PF.Residuals, comp_name |-> PF.residual,
                                    num_overplot |-> m.n_forecasts, bar |-> TRUE]>>
                            ELSE <<>>]
  ELSE LET ahead == IF focus = NoFocus THEN 1 ELSE focus IN
       IF ColResidual(ahead) \notin DOMAIN table THEN [raised |-> "KeyError", components |-> <<>>]
       ELSE [raised |-> "none",
             components |-> IF Count(table[ColResidual(ahead)]) > 0
                            THEN <<[plot_name |-> PF.ResidualsParen \o IntToStr(ahead) \o PF.ParenAhead,
                                    comp_name |-> ColResidual(ahead), bar |-> TRUE]>>
                            ELSE <<>>]

\* an Uncertainty entry for every quantile, the first one included
pc_uncertainty_components_from_first(m, focus) ==
  IF focus = NoFocus
  THEN [i \in 1..Len(m.quantiles) |->
          [plot_name |-> PF.Uncertainty, comp_name |-> ColQuantile(1, m.quantiles[i]), fill |-> TRUE]]
  ELSE [i \in 1..Len(m.quantiles) |->
          [plot_name |-> PF.Uncertainty, comp_name |-> ColQuantile(focus, m.quantiles[i]),
           num_overplot |-> focus, fill |-> TRUE]]

\* the Uncertainty entries of the unfocused view, whatever the focus
pc_uncertainty_components_base_horizon(m, focus) ==
  IF Len(m.quantiles) > 1
  THEN [i \in 1..(Len(m.quantiles) - 1) |->
          [plot_name |-> PF.Uncertainty, comp_name |-> ColQuantile(1, m.quantiles[i + 1]), fill |-> TRUE]]
  ELSE <<>>

\* lines 354-373: one Uncertainty entry per quantile after the first
pc_uncertainty_components(m, focus) ==
  IF Len(m.quantiles) > 1 /\ focus = NoFocus
  THEN [i \in 1..(Len(m.quantiles) - 1) |->
          [plot_name |-> PF.Uncertainty, comp_name |-> ColQuantile(1, m.quantiles[i + 1]), fill |-> TRUE]]
  ELSE IF Len(m.quantiles) > 1 /\ focus # NoFocus
  THEN [i \in 1..(Len(m.quantiles) - 1) |->
          [plot_name |-> PF.Uncertainty, comp_name |-> ColQuantile(focus, m.quantiles[i + 1]),
           num_overplot |-> focus, fill |-> TRUE]]
  ELSE <<>>

\* lines 245-373: the component list, or the exception raised while building it
pc_select(m, table, focus, residuals) ==
  LET res == pc_residual_components(m, table, focus, residuals) IN
  IF res.raised # "none" THEN [raised |-> res.raised, components |-> <<>>]
  ELSE [raised |-> "none",
        components |-> pc_model_components(m, focus) \o pc_aggregate_components(table)
                       \o res.components \o pc_uncertainty_components(m, focus)]

(***************************************************************************)
(* Table access and the traces of a figure                                 *)
(***************************************************************************)
\* Series.notna(): the rows whose cell is not missing
NotNa(col) == {r \in 1..Len(col) : col[r] # NaN}

\* the cells of a column at the given rows, in row order
Take(col, rows) ==
  LET F[k \in 0..Len(col)] ==
        IF k = 0 THEN <<>> ELSE IF k \in rows THEN Append(F[k - 1], col[k]) ELSE F[k - 1]
  IN F[Len(col)]

\* fcst.loc[mask]: every column restricted to the given rows
Loc(table, rows) == [c \in DOMAIN table |-> Take(table[c], rows)]

\* a - b on cells: missing when either cell is missing
CellMinus(a, b) == IF a = NaN \/ b = NaN THEN NaN ELSE <<a[1] - b[1]>>

\* y[-1] = 0
ZeroLast_untouched(y) == y

ZeroLast(y) == [y EXCEPT ![Len(y)] = <<0>>]

\* go.Bar(name, x, y, showlegend=False); column is the table column the
\* y values are read from, opacity is plotly's default 1 unless it is passed
Bar(name, column, x, y) ==
  [type |-> "Bar", name |-> name, x |-> x, y |-> y, fill |-> "none", showlegend |-> FALSE,
   source |-> "fcst", mode |-> "unset", opacity |-> Frac(1, 1), column |-> column]

\* go.Scatter(name, x, y, mode="lines", showlegend=False)
Scatter(name, column, x, y) ==
  [type |-> "Scatter", name |-> name, x |-> x, y |-> y, fill |-> "none", showlegend |-> FALSE,
   source |-> "fcst", mode |-> "lines", opacity |-> Frac(1, 1), column |-> column]

\* go.layout.XAxis(title="ds", type="date")
DateAxis == [title |-> PF.ds, type |-> "date", tickformat |-> "unset"]

ValueAxis_tozero(title, comp_name, multiplicative) ==
  [title |-> title, rangemode |-> "tozero", tickformat |-> IF multiplicative THEN ".1%" ELSE "unset"]

\* go.layout.YAxis(title, rangemode) and the percent format of a multiplicative component
ValueAxis(title, comp_name, multiplicative) ==
  [title |-> title, rangemode |-> IF comp_name = PM.trend THEN "normal" ELSE "tozero",
   tickformat |-> IF multiplicative THEN ".1%" ELSE "unset"]

Failed(exc) == [raised |-> exc]

(***************************************************************************)
(* get_forecast_component_props, lines 444-605 (rolling and add_x are      *)
(* never passed by plot_components)                                        *)
(***************************************************************************)
\* lines 537-545: the y values drawn
forecast_y_raw(t, stored, comp_name, uncertainty, num_overplot) ==
  IF Contains(comp_name, PF.residual) THEN ZeroLast(t[comp_name]) ELSE t[comp_name]

forecast_y(t, stored, comp_name, uncertainty, num_overplot) ==
  IF uncertainty
  THEN LET base == t[ColYhat(IF num_overplot # NoFocus THEN num_overplot ELSE 1)] IN
       [r \in 1..Len(stored) |-> CellMinus(stored[r], base[r])]
  ELSE IF Contains(comp_name, PF.residual) THEN ZeroLast(t[comp_name]) ELSE t[comp_name]

\* line 499: Series.rolling(rolling, min_periods=1, center=True).mean() over a
\* column without missing cells; the window of row i is the rolling rows that
\* end at i + (rolling - 1) // 2, cut to the rows that exist.  A mean is the
\* pair <<sum, count>>.
RollingMean(col, rolling) ==
  [i \in 1..Len(col) |->
     LET last == i + ((rolling - 1) \div 2)
         rows == {r \in 1..Len(col) : last - rolling + 1 <= r /\ r <= last}
     IN IF rows = {} THEN NaN
        ELSE <<SumSeq([k \in 1..Cardinality(rows) |->
                         col[(CHOOSE r \in rows : Cardinality({q \in rows : q < r}) = k - 1)][1]]),
               Cardinality(rows)>>]

\* lines 524-535 and 585-593: go.Scatter(x, y=fcst[comp_name], mode="markers", showlegend=False)
Markers(column, x, y) ==
  [Scatter(<<>>, column, x, y) EXCEPT !.mode = "markers"]

\* rolling = NoRolling stands for rolling=None.  view tells whether .values
\* at line 537 shares its memory with the column of the filtered table, so
\* that the write y[-1] = 0 of line 540 is seen by the later reads of
\* fcst[comp_name] (lines 543-545 and 588); pandas decides that.
get_forecast_component_props(table, comp_name, plot_name, multiplicative, bar, rolling, add_x, fill,
                             num_overplot, view) ==
  IF comp_name \notin DOMAIN table THEN Failed("KeyError")
  ELSE LET t == Loc(table, NotNa(table[comp_name]))
           uncertainty == Contains(Lower(plot_name), PF.uncertainty)
           residual == Contains(comp_name, PF.residual)
       IN
       IF PF.ds \notin DOMAIN t THEN Failed("KeyError")
       ELSE IF rolling # NoRolling /\ bar THEN Failed("ValueError")
       ELSE IF residual /\ Len(t[comp_name]) = 0 THEN Failed("IndexError")
       ELSE IF uncertainty /\ ColYhat(IF num_overplot # NoFocus THEN num_overplot ELSE 1) \notin DOMAIN t
       THEN Failed("KeyError")
       ELSE LET stored == IF residual /\ view THEN ZeroLast(t[comp_name]) ELSE t[comp_name]
                y == forecast_y(t, stored, comp_name, uncertainty, num_overplot)
                underlay == IF rolling = NoRolling THEN <<>>
                            ELSE <<[Scatter(plot_name, comp_name, t[PF.ds], RollingMean(t[comp_name], rolling))
                                      EXCEPT !.opacity = Frac(1, 2)]>>
                                 \o (IF add_x THEN <<Markers(comp_name, t[PF.ds], t[comp_name])>> ELSE <<>>)
                main == IF bar THEN <<Bar(plot_name, comp_name, t[PF.ds], y)>>
                        ELSE IF uncertainty /\ fill
                        THEN <<[Scatter(comp_name, comp_name, t[PF.ds], y)
                                  EXCEPT !.fill = "tozeroy", !.showlegend = TRUE]>>
                        ELSE <<Scatter(plot_name, comp_name, t[PF.ds], y)>>
                             \o (IF add_x THEN <<Markers(comp_name, t[PF.ds], stored)>> ELSE <<>>)
            IN [raised |-> "none",
                traces |-> underlay \o main,
                xaxis |-> DateAxis,
                yaxis |-> ValueAxis(plot_name, comp_name, multiplicative)]

(***************************************************************************)
(* get_multiforecast_component_props, lines 608-735 (focus keeps its       *)
(* default 1: no descriptor carries it)                                    *)
(***************************************************************************)
FracAdd(a, b) == Frac(a.num * b.den + b.num * a.den, a.den * b.den)

FracMul(a, b) == Frac(a.num * b.num, a.den * b.den)

FracDiv(a, b) == Frac(a.num * b.den, a.den * b.num)

OverplotAlpha_flat(i) == Frac(1, 2)

\* the formula of line 656 evaluated at the horizon i + 1
OverplotAlpha_horizon(i) == Frac(i + 7, 5 * i + 11)

\* lines 654-656, with i the loop variable of line 651
OverplotAlpha(i) ==
  LET alpha_min == Frac(2, 10)
      alpha_softness == Frac(12, 10)
  IN FracAdd(alpha_min,
             FracDiv(FracMul(alpha_softness, FracAdd(Frac(1, 1), FracMul(Frac(-1, 1), alpha_min))),
                     FracAdd(Frac(i, 1), FracMul(Frac(1, 1), alpha_softness))))

\* lines 650-686: one trace per value i of the loop variable, from
\* num_overplot - 1 down to 0, reading column comp_name + str(i + 1)
RECURSIVE multiforecast_overplot(_, _, _, _, _)
multiforecast_overplot(t, comp_name, plot_name, bar, n) ==
  IF n = 0 THEN [raised |-> "none", traces |-> <<>>]
  ELSE LET i == n - 1
           column == comp_name \o IntToStr(i + 1)
       IN
       IF column \notin DOMAIN t THEN Failed("KeyError")
       ELSE IF Contains(comp_name, PF.residual) /\ Len(t[column]) = 0 THEN Failed("IndexError")
       ELSE LET y == IF Contains(comp_name, PF.residual) THEN ZeroLast(t[column]) ELSE t[column]
                alpha == OverplotAlpha(i)
                rest == multiforecast_overplot(t, comp_name, plot_name, bar, n - 1)
            IN IF rest.raised # "none" THEN rest
               ELSE [raised |-> "none",
                     traces |-> <<[(IF bar THEN Bar(plot_name, column, t[PF.ds], y)
                                    ELSE Scatter(plot_name, column, t[PF.ds], y)) EXCEPT !.opacity = alpha]>>
                                \o rest.traces]

get_multiforecast_component_props(table, comp_name, plot_name, multiplicative, bar, num_overplot) ==
  IF num_overplot # NoFocus
  THEN IF comp_name \o IntToStr(1) \notin DOMAIN table \/ comp_name \o IntToStr(num_overplot) \notin DOMAIN table
       THEN Failed("KeyError")
       ELSE LET t == Loc(table, NotNa(table[comp_name \o IntToStr(1)])
                                \cup NotNa(table[comp_name \o IntToStr(num_overplot)]))
                col_names == {c \in DOMAIN t : StartsWith(c, comp_name)}
            IN IF PF.ds \notin DOMAIN t THEN Failed("KeyError")
               ELSE IF ~(num_overplot <= Cardinality(col_names)) THEN Failed("AssertionError")
               ELSE LET drawn == multiforecast_overplot(t, comp_name, plot_name, bar, num_overplot) IN
                    IF drawn.raised # "none" THEN drawn
                    ELSE [raised |-> "none", traces |-> drawn.traces, xaxis |-> DateAxis,
                          yaxis |-> ValueAxis(plot_name, comp_name, multiplicative)]
  ELSE IF comp_name \notin DOMAIN table THEN Failed("KeyError")
  ELSE LET t == Loc(table, NotNa(table[comp_name])) IN
       IF PF.ds \notin DOMAIN t THEN Failed("KeyError")
       ELSE IF Contains(comp_name, PF.residual) /\ Len(t[comp_name]) = 0 THEN Failed("IndexError")
       ELSE LET y == IF Contains(comp_name, PF.residual) THEN ZeroLast(t[comp_name]) ELSE t[comp_name] IN
            [raised |-> "none",
             traces |-> <<IF bar THEN Bar(plot_name, comp_name, t[PF.ds], y)
                          ELSE Scatter(plot_name, comp_name, t[PF.ds], y)>>,
             xaxis |-> DateAxis,
             yaxis |-> ValueAxis(plot_name, comp_name, multiplicative)]

(***************************************************************************)
(* get_seasonality_props, lines 738-820.  Periods are in hundredths of a   *)
(* day, the timestamps of the table in minutes since 2017-01-01 00:00.     *)
(***************************************************************************)
\* a week shown with the time of day
tickformat_week_with_time(period) ==
  IF period <= 200 THEN "%H:%M" ELSE IF period <= 700 THEN "%A %H:%M" ELSE IF period < 1400 THEN "%A" ELSE "%B"

\* lines 795-802: the tick format of the date axis
tickformat(period) ==
  IF period <= 200 THEN "%H:%M" ELSE IF period < 700 THEN "%A %H:%M" ELSE IF period < 1400 THEN "%A" ELSE "%B"

\* lines 767-772: the number of points, from the precision of the table's timestamps
plot_points_hourly(period, ds) == (period * 24 * 24) \div 100

plot_points(period, ds) ==
  IF \A r \in 1..Len(ds) : (ds[r][1] \div 60) % 24 = 0 THEN (period * 24) \div 100
  ELSE IF \A r \in 1..Len(ds) : ds[r][1] % 60 = 0 THEN (period * 24 * 24) \div 100
  ELSE (period * 24 * 60) \div 100

\* line 773: np.linspace(start.value, end.value, num, endpoint=False); the k-th
\* timestamp is nums[k] / den hundredths of a day after start
linspace(period, num) == [den |-> num, nums |-> [k \in 1..num |-> (k - 1) * period]]

\* what the model's seasonality answers for one timestamp: a function of
\* the name, the timestamp and the quantile
SeasonalOutput(name, num, den, quantile_index) == (((num \div den) + Len(name) + quantile_index) % 7) - 3

\* line 780: m.predict_seasonal_components(df_y)[comp_name], one value per row of df_y
predict_seasonal_components(m, days, comp_name) ==
  [k \in 1..Len(days.nums) |-> <<SeasonalOutput(comp_name, days.nums[k], days.den, 0)>>]

\* quick_error is the exception of the call of line 778, m.predict_season_from_dates(m,
\* dates=..., name=...): the model has no such attribute, and the function of
\* that name takes m once and a quantile
get_seasonality_props(m, table, comp_name, multiplicative, quick, quick_error) ==
  IF \A k \in 1..Len(m.config_season) : m.config_season[k].name # comp_name THEN Failed("KeyError")
  ELSE IF PF.ds \notin DOMAIN table THEN Failed("KeyError")
  ELSE IF quick THEN Failed(quick_error)
  ELSE LET period == (CHOOSE c \in {m.config_season[k] : k \in 1..Len(m.config_season)} :
                        c.name = comp_name).period
           days == linspace(period, plot_points(period, table[PF.ds]))
       IN [raised |-> "none",
           traces |-> <<[type |-> "Scatter", name |-> PF.SeasonalityColon \o comp_name,
                         x |-> days, y |-> predict_seasonal_components(m, days, comp_name),
                         fill |-> "none", showlegend |-> FALSE, source |-> "predict_seasonal_components",
                         mode |-> "lines", opacity |-> Frac(1, 1), column |-> comp_name]>>,
           xaxis |-> [title |-> PF.DayOf \o (IF Len(comp_name) >= 2
                                              /\ SubSeq(comp_name, Len(comp_name) - 1, Len(comp_name)) = PF.ly
                                           THEN SubSeq(comp_name, 1, Len(comp_name) - 2) ELSE comp_name),
                      type |-> "date",
                      tickformat |-> tickformat(period)],
           yaxis |-> [title |-> PF.SeasonalityColon \o comp_name, rangemode |-> "unset",
                      tickformat |-> IF multiplicative THEN ".1%" ELSE "unset"]]

(***************************************************************************)
(* plot_components, lines 375-440: panels and rendering                    *)
(***************************************************************************)
\* line 376: the distinct lower-cased plot names
pc_panel_names(components) == {Lower(components[k].plot_name) : k \in 1..Len(components)}

\* the panel names contained in a plot name
PanelMatches(panel_names, plot_name) ==
  LET name == Lower(plot_name) IN {x \in panel_names : Contains(name, x)}

\* the panel names whose place in list(set(...)) decides the panel order
AmbiguousPanels(components) ==
  LET panel_names == pc_panel_names(components) IN
  UNION {M \in {PanelMatches(panel_names, components[k].plot_name) : k \in 1..Len(components)} :
           Cardinality(M) > 1}

\* the orders list(set(...)) can give to those names
PanelListings(components) ==
  LET A == AmbiguousPanels(components) IN
  {f \in [1..Cardinality(A) -> A] : \A i, j \in 1..Cardinality(A) : i # j => f[i] # f[j]}

\* line 377: every panel name contained in each plot name, component by component
RECURSIVE pc_panel_order(_, _, _, _)
pc_panel_order(components, panel_names, listing, k) ==
  IF k > Len(components) THEN <<>>
  ELSE LET M == PanelMatches(panel_names, components[k].plot_name) IN
       (IF Cardinality(M) = 1 THEN <<CHOOSE x \in M : TRUE>>
        ELSE SelectSeq(listing, LAMBDA x : x \in M))
       \o pc_panel_order(components, panel_names, listing, k + 1)

\* list.index(x), counted from 0
IndexOf(list, x) == (CHOOSE i \in 1..Len(list) : list[i] = x /\ \A j \in 1..(i - 1) : list[j] # x) - 1

\* dict.get(key, default)
Get(c, key, default) == IF key \in DOMAIN c THEN c[key] ELSE default

\* lines 396-419: the branch of the render loop that a plot name takes
pc_branch(plot_name) ==
  LET name == Lower(plot_name) IN
  IF \/ name = PM.trend
     \/ (Contains(name, PF.residuals) /\ Contains(name, PF.ahead))
     \/ (Contains(name, PF.ar) /\ Contains(name, PF.ahead))
     \/ (Contains(name, PF.lagged_regressor) /\ Contains(name, PF.ahead))
     \/ Contains(name, PF.uncertainty)
  THEN "forecast"
  ELSE IF Contains(name, PF.event) \/ Contains(name, PF.future_regressor) THEN "aggregate"
  ELSE IF Contains(name, PF.season) THEN "season"
  ELSE IF Contains(name, PF.auto_regression) \/ Contains(name, PF.lagged_regressor_sp) \/ Contains(name, PF.residuals)
  THEN "multiforecast"
  ELSE "none"

\* lines 410-411: comp.update({"multiplicative": True}) for a seasonality of a multiplicative model
pc_update(m, c, branch) ==
  IF branch = "season" /\ m.season_mode = "multiplicative" THEN [multiplicative |-> TRUE] @@ c ELSE c

\* lines 396-420: the trace object of one component; prev is the one of the
\* component before.  No descriptor carries rolling or add_x, and none has a
\* residual column under an uncertainty plot name, so the last argument of
\* get_forecast_component_props has no effect on these calls.
pc_trace_object(m, table, one_period_per_season, c, branch, prev) ==
  CASE branch \in {"forecast", "aggregate"} ->
         get_forecast_component_props(table, c.comp_name, c.plot_name, Get(c, "multiplicative", FALSE),
                                      Get(c, "bar", FALSE), NoRolling, FALSE, Get(c, "fill", FALSE),
                                      Get(c, "num_overplot", NoFocus), TRUE)
    [] branch = "season" ->
         IF one_period_per_season
         THEN get_seasonality_props(m, table, c.comp_name, Get(pc_update(m, c, branch), "multiplicative", FALSE),
                                    FALSE, "AttributeError")
         ELSE get_forecast_component_props(table, PF.season_ \o c.comp_name, c.plot_name, FALSE, FALSE,
                                           NoRolling, FALSE, FALSE, NoFocus, TRUE)
    [] branch = "multiforecast" ->
         get_multiforecast_component_props(table, c.comp_name, c.plot_name, Get(c, "multiplicative", FALSE),
                                           Get(c, "bar", FALSE), Get(c, "num_overplot", NoFocus))
    [] OTHER -> prev

\* axis.update(props): the properties given replace the ones set
AxisUpdate(axis, props) ==
  [f \in DOMAIN axis |-> IF f = "title" THEN props.title
                          ELSE IF props[f] # "unset" THEN props[f] ELSE axis[f]]

\* make_subplots(npanel, cols=1): no trace, one pair of axes per row
\* lines 379-389 with the default figsize (700, 210): make_subplots(npanel, cols=1)
\* and Layout(width=figsize[0], height=figsize[1] * npanel)
EmptyFigure(npanel) ==
  [raised |-> "none", npanel |-> npanel, width |-> 700, height |-> 210 * npanel, traces |-> <<>>,
   barmode |-> "unset",
   xaxis |-> [j \in 1..npanel |-> [title |-> <<>>, type |-> "unset", tickformat |-> "unset"]],
   yaxis |-> [j \in 1..npanel |-> [title |-> <<>>, rangemode |-> "unset", tickformat |-> "unset"]]]

\* lines 392-436: the components drawn one after the other; barmode becomes
\* "overlay" after a multi-forecast component (line 421)
RECURSIVE pc_render_loop(_, _, _, _, _, _, _, _)
pc_render_loop(m, table, one_period_per_season, components, panel_order, k, fig, prev) ==
  IF k > Len(components) THEN [fig |-> fig, components |-> components]
  ELSE LET c == components[k]
           j == IndexOf(panel_order, Lower(c.plot_name))
           branch == pc_branch(c.plot_name)
           updated == [components EXCEPT ![k] = pc_update(m, c, branch)]
           trace_object == pc_trace_object(m, table, one_period_per_season, c, branch, prev)
           barmode == IF branch = "multiforecast" THEN "overlay" ELSE fig.barmode
       IN IF trace_object.raised # "none"
          THEN [fig |-> [fig EXCEPT !.raised = trace_object.raised], components |-> updated]
          ELSE IF j + 1 > fig.npanel
          THEN [fig |-> [fig EXCEPT !.raised = "Exception", !.barmode = barmode], components |-> updated]
          ELSE pc_render_loop(m, table, one_period_per_season, updated, panel_order, k + 1,
                 [fig EXCEPT !.barmode = barmode,
                             !.xaxis[j + 1] = AxisUpdate(@, trace_object.xaxis),
                             !.yaxis[j + 1] = AxisUpdate(@, trace_object.yaxis),
                             !.traces = @ \o [i \in 1..Len(trace_object.traces) |->
                                                [row |-> j + 1, trace |-> trace_object.traces[i]]]],
                 trace_object)

\* a layout with one row per descriptor
pc_layout_per_descriptor(components, listing) ==
  [panel_order |-> pc_panel_order(components, pc_panel_names(components), listing, 1),
   npanel |-> Len(components)]

\* lines 375-378 and the listing list(set(...)) produced
pc_layout(components, listing) ==
  [panel_order |-> pc_panel_order(components, pc_panel_names(components), listing, 1),
   npanel |-> Cardinality(pc_panel_names(components))]

\* lines 380-440: the figure returned, or the exception raised while drawing
pc_render(m, table, one_period_per_season, components, layout) ==
  pc_render_loop(m, table, one_period_per_season, components, layout.panel_order, 1,
                 EmptyFigure(layout.npanel), Failed("UnboundLocalError"))

(***************************************************************************)
(* plot_weekly and plot_yearly, lines 592-716, with quick at its default   *)
(* True (plot_parameters never passes it).  A timestamp is a number of     *)
(* hours since 2017-01-01 00:00, which was a Sunday.                       *)
(***************************************************************************)
date_range_unshifted(periods, step, days) == [k \in 1..periods |-> (k - 1) * step]

\* pd.date_range(start="2017-01-01", periods=periods, freq=step hours) + pd.Timedelta(days=days)
date_range_shifted(periods, step, days) == [k \in 1..periods |-> (k - 1) * step + 24 * days]

\* DatetimeIndex.day_name() of one timestamp
day_name(t) ==
  <<"Sunday", "Monday", "Tuesday", "Wednesday", "Thursday", "Friday", "Saturday">>[((t \div 24) % 7) + 1]

\* the scale applied a second time
rescale_twice(m, predicted, scale) ==
  IF m.season_mode = "additive" THEN [k \in 1..Len(predicted) |-> predicted[k] * scale * scale] ELSE predicted

\* lines 517-520 and 539-542: predicted * scale for an additive seasonality
rescale(m, predicted, scale) ==
  IF m.season_mode = "additive" THEN [k \in 1..Len(predicted) |-> predicted[k] * scale] ELSE predicted

\* lines 514-515 and 536-537: the index of the quantile, the model's seasonal
\* output at the timestamps nums[k] / den (in hundredths of a day), and the
\* normalization lookup and scaling of an additive seasonality; line is the
\* source line of the lookup
season_query(m, unknown_ok, nums, den, name, quantile, df_name, line) ==
  IF \A i \in 1..Len(m.quantiles) : m.quantiles[i] # quantile
  THEN [raised |-> "ValueError", name |-> name, quantile |-> quantile, lookups |-> <<>>, output |-> <<>>,
        predicted |-> <<>>]
  ELSE LET quantile_index == (CHOOSE i \in 1..Len(m.quantiles) : m.quantiles[i] = quantile) - 1
           output == [k \in 1..Len(nums) |-> SeasonalOutput(name, nums[k], den, quantile_index)]
           lk == DoLookups(m, unknown_ok, df_name, IF m.season_mode = "additive" THEN <<line>> ELSE <<>>)
       IN IF Len(lk) > 0 /\ ~lk[Len(lk)].ok
          THEN [raised |-> "ValueError", name |-> name, quantile |-> quantile, lookups |-> lk,
                output |-> output, predicted |-> <<>>]
          ELSE [raised |-> "none", name |-> name, quantile |-> quantile, lookups |-> lk, output |-> output,
                predicted |-> rescale(m, output,
                                      IF m.season_mode = "additive"
                                      THEN get_data_params(m, unknown_ok, df_name).params.y_scale ELSE 1)]

\* lines 524-543; dates are hours since 2017-01-01 00:00
predict_season_from_dates(m, unknown_ok, dates, name, quantile, df_name) ==
  [dates |-> dates] @@ season_query(m, unknown_ok, [k \in 1..Len(dates) |-> 100 * dates[k]], 24, name,
                                    quantile, df_name, 540)

\* lines 499-521: t_i = np.arange(n_steps + 1) / n_steps, the seasonality asked at t_i * period
predict_one_season(m, unknown_ok, quantile, name, n_steps, df_name) ==
  LET period == (CHOOSE c \in {m.config_season[k] : k \in 1..Len(m.config_season)} : c.name = name).period IN
  [dates |-> [k \in 1..(n_steps + 1) |-> k - 1]]
  @@ season_query(m, unknown_ok, [k \in 1..(n_steps + 1) |-> (k - 1) * period], n_steps, name, quantile,
                  df_name, 518)

\* lines 546-589: the curve of predict_one_season with n_steps=300
plot_custom_season(m, unknown_ok, comp_name, quantile, df_name) ==
  LET query == predict_one_season(m, unknown_ok, quantile, comp_name, 300, df_name) IN
  IF query.raised # "none" THEN [raised |-> query.raised, query |-> query]
  ELSE [raised |-> "none", query |-> query, x |-> query.dates, xticks |-> <<>>, xticklabels |-> <<>>]

\* lines 655-716
plot_weekly(m, unknown_ok, quantile, comp_name, weekly_start, df_name) ==
  LET days_i == date_range_shifted(7 * 24, 1, weekly_start)
      query == predict_season_from_dates(m, unknown_ok, days_i, comp_name, quantile, df_name)
      days == [k \in 1..7 |-> day_name(date_range_shifted(7, 24, weekly_start)[k])]
  IN IF query.raised # "none" THEN [raised |-> query.raised, query |-> query]
     ELSE [raised |-> "none", query |-> query,
           x |-> [k \in 1..Len(days_i) |-> k - 1],
           xticks |-> [k \in 1..(Len(days) + 1) |-> 24 * (k - 1)],
           xticklabels |-> days \o <<days[1]>>]

\* lines 592-652: the curve is drawn against the dates asked for
plot_yearly(m, unknown_ok, quantile, comp_name, yearly_start, df_name) ==
  LET days == date_range_shifted(365, 24, yearly_start)
      query == predict_season_from_dates(m, unknown_ok, days, comp_name, quantile, df_name)
  IN IF query.raised # "none" THEN [raised |-> query.raised, query |-> query]
     ELSE [raised |-> "none", query |-> query, x |-> days, xticks |-> <<>>, xticklabels |-> <<>>]

(***************************************************************************)
(* State.                                                                  *)
(***************************************************************************)
VARIABLES
  m,                            \* the fitted model, read-only for the plotting code
  unknown_data_normalization,   \* m.config_normalization.unknown_data_normalization
  pc,                           \* per caller: where its plot_parameters call stands
  args,                         \* per caller: the arguments of its current call
  loc,                          \* per caller: the local variables of its current call
  out,                          \* per caller: what its current or last call produced
  ncalls,                       \* per caller: number of calls started
  hist,                         \* history: initial flag, whether a call raised, interference
  fcst,                         \* the forecast table handed to plot_components
  comp,                         \* the plot_components call: its arguments and what it produced
  sw,                           \* the plot_scalar_weights call: its arguments and what it drew
  props,                        \* a direct call of one of the props functions and its result
  season                        \* a call of a seasonality plot: what it asked and drew

vars == <<m, unknown_data_normalization, pc, args, loc, out, ncalls, hist, fcst, comp, sw, props, season>>

\* the variables plot_parameters does not touch
others == <<fcst, comp, sw, props, season>>

\* the threads that may call plot_parameters on the same model
Callers == {1, 2}

\* the series the model was fitted on, with their normalization parameters
LocalDataParams == [a |-> [y_scale |-> 3, y_shift |-> 7]]
GlobalDataParams == [y_scale |-> 2, y_shift |-> 5]

\* the quantiles a model may be configured with, in per mille
QuantileLists == {<<500>>, <<500, 100>>}

\* model configurations: every combination of the listed parts
ConfigSet(seasons, lags, quantiles, forecasts, regressors, holidays, events, lagged) ==
  [global_normalization : BOOLEAN,
   global_data_params : {GlobalDataParams},
   local_data_params : {LocalDataParams},
   n_changepoints : {0, 3},
   config_season : seasons,
   season_mode : {"additive", "multiplicative"},
   n_lags : lags,
   quantiles : quantiles,
   n_forecasts : forecasts,
   config_regressors : regressors,
   config_country_holidays : holidays,
   config_events : events,
   config_lagged_regressors : lagged]

\* the configurations the call sequences are explored on
CallConfigs ==
  ConfigSet({<<>>, <<[name |-> Names.hourly, period |-> 2950], [name |-> Names.weekly, period |-> 700]>>},
            {2}, {<<500, 100>>}, {MaxForecasts},
            {<<[name |-> Names.temp, mode |-> "additive"], [name |-> Names.rain, mode |-> "multiplicative"]>>},
            {<<>>},
            {<<>>, <<[name |-> Names.sale, mode |-> "additive"], [name |-> Names.fair, mode |-> "multiplicative"]>>},
            {<<[name |-> Names.load, as_scalar |-> FALSE, n_lags |-> 2]>>,
             <<[name |-> Names.wind, as_scalar |-> TRUE, n_lags |-> 1]>>,
             <<[name |-> Names.wind, as_scalar |-> TRUE, n_lags |-> 2]>>})

\* the arguments of a plot_parameters call
DfNames == {NoName, "a", "zz"}
Quantiles == {500, 100, 900}
Focuses == {NoFocus} \cup 1..MaxForecasts

NoCall == [df_name |-> NoName, quantile |-> 500, forecast_in_focus |-> NoFocus]
NoSel == [raised |-> "none", lookups |-> <<>>, components |-> <<>>]
NoLocals == [df_name |-> NoName, overwriting_unknown_data_normalization |-> FALSE, sel |-> NoSel, i |-> 0]
NoOutput == [result |-> "none", warnings |-> 0, lookups |-> <<>>, panels |-> <<>>, percent_axes |-> {}]

\* no plot_components call and no plot_scalar_weights call
NoTable == [c \in {} |-> <<>>]
NoCompCall == [stage |-> "idle"]
NoScalarCall == [called |-> FALSE]
NoPropsCall == [fn |-> "none"]
NoSeasonCall == [fn |-> "none"]

InitCallers ==
  /\ fcst = NoTable /\ comp = NoCompCall /\ sw = NoScalarCall /\ props = NoPropsCall /\ season = NoSeasonCall
  /\ pc = [p \in Callers |-> "idle"]
  /\ args = [p \in Callers |-> NoCall]
  /\ loc = [p \in Callers |-> NoLocals]
  /\ out = [p \in Callers |-> NoOutput]
  /\ ncalls = [p \in Callers |-> 0]

Init ==
  /\ m \in CallConfigs
  /\ unknown_data_normalization \in BOOLEAN
  /\ hist = [flag0 |-> unknown_data_normalization, raised |-> FALSE, interfered |-> [p \in Callers |-> FALSE]]
  /\ InitCallers

(***************************************************************************)
(* plot_parameters, step by step.                                          *)
(***************************************************************************)
\* the call raises exc: nothing is returned, nothing is cleaned up
Raise(p, exc, lookups, panels) ==
  /\ pc' = [pc EXCEPT ![p] = "idle"]
  /\ out' = [out EXCEPT ![p].result = exc, ![p].lookups = @ \o lookups, ![p].panels = @ \o panels]
  /\ hist' = [hist EXCEPT !.raised = TRUE]
  /\ UNCHANGED <<m, unknown_data_normalization, args, loc, ncalls, others>>

\* lines 79-102: entry of plot_parameters(m, quantile, forecast_in_focus, df_name)
Call(p, df_name, quantile, focus, limit) ==
  /\ pc[p] = "idle"
  /\ ncalls[p] < limit
  /\ LET s == pp_setup(m, unknown_data_normalization, df_name) IN
     /\ unknown_data_normalization' = (IF s.overwriting THEN TRUE ELSE unknown_data_normalization)
     /\ loc' = [loc EXCEPT ![p] = [df_name |-> s.df_name, overwriting_unknown_data_normalization |-> s.overwriting,
                                   sel |-> NoSel, i |-> 0]]
     /\ out' = [out EXCEPT ![p] = [NoOutput EXCEPT !.warnings = s.warnings]]
  /\ args' = [args EXCEPT ![p] = [df_name |-> df_name, quantile |-> quantile, forecast_in_focus |-> focus]]
  /\ pc' = [pc EXCEPT ![p] = "select"]
  /\ ncalls' = [ncalls EXCEPT ![p] = @ + 1]
  /\ hist' = [hist EXCEPT !.interfered[p] = FALSE]
  /\ UNCHANGED <<m, others>>

\* lines 104-201: the components are identified and the subplots created
Select(p) ==
  /\ pc[p] = "select"
  /\ LET s == pp_select(m, unknown_data_normalization, args[p].quantile, args[p].forecast_in_focus, loc[p].df_name) IN
     IF s.raised # "none"
     THEN Raise(p, s.raised, s.lookups, <<>>)
     ELSE /\ loc' = [loc EXCEPT ![p].sel = s, ![p].i = 1]
          /\ out' = [out EXCEPT ![p].lookups = @ \o s.lookups]
          /\ pc' = [pc EXCEPT ![p] = "render"]
          /\ UNCHANGED <<m, unknown_data_normalization, args, ncalls, hist, others>>

\* lines 203-237: one iteration of the loop over zip(axes, components)
Render(p) ==
  /\ pc[p] = "render"
  /\ LET i == loc[p].i
         comps == loc[p].sel.components
         r == pp_render(m, unknown_data_normalization, loc[p].sel, comps[i], i, args[p].forecast_in_focus, loc[p].df_name)
     IN  IF r.raised # "none"
         THEN Raise(p, r.raised, r.lookups, <<r>>)
         ELSE /\ out' = [out EXCEPT ![p].lookups = @ \o r.lookups, ![p].panels = Append(@, r),
                                    ![p].percent_axes = IF r.multiplicative THEN @ \cup {i} ELSE @]
              /\ loc' = [loc EXCEPT ![p].i = i + 1]
              /\ pc' = [pc EXCEPT ![p] = IF i = Len(comps) THEN "finish" ELSE "render"]
              /\ UNCHANGED <<m, unknown_data_normalization, args, ncalls, hist, others>>

\* lines 238-246: layout, percent labels, reset of the flag, return fig
Finish(p) ==
  /\ pc[p] = "finish"
  /\ unknown_data_normalization' = pp_reset(unknown_data_normalization, loc[p].overwriting_unknown_data_normalization)
  /\ out' = [out EXCEPT ![p].result = "fig"]
  /\ pc' = [pc EXCEPT ![p] = "idle"]
  /\ hist' = [hist EXCEPT !.interfered =
                [q \in Callers |-> IF q # p /\ pc[q] # "idle" /\ loc[p].overwriting_unknown_data_normalization
                                   THEN TRUE ELSE hist.interfered[q]]]
  /\ UNCHANGED <<m, args, loc, ncalls, others>>

\* one caller: calls follow one another
Next ==
  \/ \E df_name \in DfNames, quantile \in Quantiles, focus \in Focuses : Call(1, df_name, quantile, focus, MaxCalls)
  \/ Select(1)
  \/ Render(1)
  \/ Finish(1)

Spec == Init /\ [][Next]_vars

(***************************************************************************)
(* One call on each of a wide range of model configurations.               *)
(***************************************************************************)
WideConfigs ==
  { c \in ConfigSet({<<>>, <<[name |-> Names.weekly, period |-> 700]>>,
                     <<[name |-> Names.hourly, period |-> 2950], [name |-> Names.weekly, period |-> 700]>>},
                    {0, 2}, QuantileLists, {MaxForecasts},
                    {<<>>, <<[name |-> Names.temp, mode |-> "additive"]>>, <<[name |-> Names.rain, mode |-> "multiplicative"]>>,
                     <<[name |-> Names.temp, mode |-> "additive"], [name |-> Names.rain, mode |-> "multiplicative"]>>},
                    {<<>>, <<[name |-> Names.xmas, mode |-> "additive"]>>, <<[name |-> Names.xmas, mode |-> "multiplicative"]>>},
                    {<<>>, <<[name |-> Names.sale, mode |-> "additive"]>>,
                     <<[name |-> Names.sale, mode |-> "additive"], [name |-> Names.fair, mode |-> "multiplicative"]>>},
                    {<<>>, <<[name |-> Names.load, as_scalar |-> FALSE, n_lags |-> 2]>>,
                     <<[name |-> Names.wind, as_scalar |-> TRUE, n_lags |-> 1]>>,
                     <<[name |-> Names.wind, as_scalar |-> TRUE, n_lags |-> 1], [name |-> Names.load, as_scalar |-> FALSE, n_lags |-> 2]>>,
                     <<[name |-> Names.wind, as_scalar |-> TRUE, n_lags |-> 2]>>}) :
      c.global_normalization /\ c.season_mode = "multiplicative" }

InitWide ==
  /\ m \in WideConfigs
  /\ unknown_data_normalization = FALSE
  /\ hist = [flag0 |-> unknown_data_normalization, raised |-> FALSE, interfered |-> [p \in Callers |-> FALSE]]
  /\ InitCallers

NextWide ==
  \/ \E quantile \in Quantiles, focus \in {NoFocus, MaxForecasts} : Call(1, NoName, quantile, focus, 1)
  \/ Select(1)
  \/ Render(1)
  \/ Finish(1)

SpecWide == InitWide /\ [][NextWide]_vars

(***************************************************************************)
(* Two callers on the same model instance, their steps interleaved.        *)
(***************************************************************************)
ConcConfigs ==
  ConfigSet({<<[name |-> Names.weekly, period |-> 700]>>}, {0}, {<<500>>}, {MaxForecasts}, {<<>>}, {<<>>},
            {<<>>, <<[name |-> Names.sale, mode |-> "additive"]>>}, {<<>>})

InitConc ==
  /\ m \in ConcConfigs
  /\ unknown_data_normalization \in BOOLEAN
  /\ hist = [flag0 |-> unknown_data_normalization, raised |-> FALSE, interfered |-> [p \in Callers |-> FALSE]]
  /\ InitCallers

NextConc ==
  \E p \in Callers :
    \/ \E df_name \in DfNames, quantile \in {500, 900} : Call(p, df_name, quantile, NoFocus, 1)
    \/ Select(p)
    \/ Render(p)
    \/ Finish(p)

SpecConc == InitConc /\ [][NextConc]_vars

(***************************************************************************)
(* Properties of plot_parameters.                                          *)
(***************************************************************************)
\* the call of caller p took the local-normalization fallback
Fallback(p) ==
  /\ ncalls[p] > 0
  /\ ~m.global_normalization
  /\ (args[p].df_name = NoName \/ args[p].df_name \notin DOMAIN m.local_data_params)

\* the call of caller p names a series with local normalization parameters
KnownSeries(p) ==
  /\ ncalls[p] > 0
  /\ ~m.global_normalization
  /\ args[p].df_name \in DOMAIN m.local_data_params

\* C1: when a call that flipped unknown_data_normalization from False to True
\* has ended, by returning or by raising, the flag is False again.
C1_FlagRestoredWhenCallEnds ==
  (pc[1] = "idle" /\ loc[1].overwriting_unknown_data_normalization) => unknown_data_normalization = FALSE

\* C2: after any sequence of calls that all returned normally, the flag has
\* the value it had before the first call.
C2_NoLeakAcrossNormalCalls ==
  (pc[1] = "idle" /\ ~hist.raised) => unknown_data_normalization = hist.flag0

\* two calls returned normally and the second one had flipped the flag
C2_Witness ==
  /\ pc[1] = "idle" /\ ~hist.raised /\ ncalls[1] >= 2
  /\ out[1].result = "fig"
  /\ loc[1].overwriting_unknown_data_normalization

\* a lookup of the default series made by caller p while unknown series were
\* not allowed, under local normalization
UnsafeLookup(p) ==
  /\ ~m.global_normalization
  /\ \E k \in 1..Len(out[p].lookups) :
       out[p].lookups[k].df_name = "__df__" /\ ~out[p].lookups[k].unknown_ok

\* C3: with two interleaved calls a caller can look up the default series
\* with the flag False, and this happens only after the other call has reset
\* the flag while this caller was between its setup and its last lookup.
C3_UnsafeLookupOnlyByInterference ==
  \A p \in Callers : UnsafeLookup(p) => hist.interfered[p]

\* a caller in the fallback has looked up the default series with the flag
\* False, which get_data_params rejects
C3_Witness ==
  \E p \in Callers :
    /\ Fallback(p) /\ UnsafeLookup(p)
    /\ args[p].quantile \in {m.quantiles[k] : k \in 1..Len(m.quantiles)}

\* C4 (state part): in the fallback one warning is logged, every lookup and
\* every renderer that takes a series is given "__df__", the flag is True at
\* every lookup and no lookup fails; a known series is used unchanged.
C4_State ==
  /\ Fallback(1) =>
       /\ out[1].warnings = 1
       /\ loc[1].df_name = "__df__"
       /\ \A k \in 1..Len(out[1].lookups) :
            /\ out[1].lookups[k].df_name = "__df__"
            /\ out[1].lookups[k].unknown_ok
            /\ out[1].lookups[k].ok
       /\ \A k \in 1..Len(out[1].panels) : out[1].panels[k].df_name \in {"__df__", NoName}
  /\ KnownSeries(1) =>
       /\ out[1].warnings = 0
       /\ loc[1].df_name = args[1].df_name
       /\ \A k \in 1..Len(out[1].lookups) : out[1].lookups[k].df_name = args[1].df_name /\ out[1].lookups[k].ok
       /\ \A k \in 1..Len(out[1].panels) : out[1].panels[k].df_name \in {args[1].df_name, NoName}

\* C4 (step part): no step of a call that names a known series writes the flag.
C4_Step ==
  (~m.global_normalization /\ args'[1].df_name \in DOMAIN m.local_data_params)
    => unknown_data_normalization' = unknown_data_normalization

C5_UnconfiguredQuantileRejected ==
  (ncalls[1] > 0 /\ args[1].quantile \notin {m.quantiles[k] : k \in 1..Len(m.quantiles)}) =>
     /\ pc[1] \in {"select", "idle"}
     /\ out[1].panels = <<>>
     /\ out[1].result \in {"none", "ValueError"}
     /\ pc[1] = "idle" => out[1].result = "ValueError"

\* a call with an unconfigured quantile has ended, on a model with several
\* quantiles, lags, regressors and events
C5_Witness ==
  /\ ncalls[1] > 0 /\ pc[1] = "idle"
  /\ args[1].quantile \notin {m.quantiles[k] : k \in 1..Len(m.quantiles)}
  /\ out[1].result = "ValueError"
  /\ Len(m.quantiles) > 1 /\ m.n_lags > 0 /\ Len(m.config_regressors) > 0 /\ Len(m.config_events) > 0

\* the kind of a plot_parameters descriptor
PPKind(c) ==
  IF c.plot_name = PM.Trend THEN "trend"
  ELSE IF c.plot_name = PM.TrendRateChange THEN "trend rate change"
  ELSE IF c.plot_name = PM.Seasonality THEN "seasonality"
  ELSE IF c.plot_name = PM.LaggedWeights /\ c.comp_name = PM.AR THEN "ar"
  ELSE IF c.plot_name = PM.LaggedWeights THEN "lagged regressor"
  ELSE IF c.plot_name = PM.LaggedScalarRegressor THEN "lagged scalar"
  ELSE IF c.plot_name = PM.AdditiveEvent THEN "additive event"
  ELSE IF c.plot_name = PM.MultiplicativeEvent THEN "multiplicative event"
  ELSE IF c.plot_name = PM.AdditiveFutureRegressor THEN "additive future"
  ELSE IF c.plot_name = PM.MultiplicativeFutureRegressor THEN "multiplicative future"
  ELSE "other"

\* the descriptors of the given kind, in list order
OfKind(comps, kind) == SelectSeq(comps, LAMBDA c : PPKind(c) = kind)

\* the entries of a configuration list that satisfy Test, in list order
Configured(list, Test(_)) == SelectSeq(list, Test)

\* what the list contains, whatever the position of the aggregated panels:
\* Trend first, Trend Rate Change iff changepoints, the seasonalities in
\* configuration order, AR iff lags, the non-scalar lagged regressors in
\* configuration order, and each aggregate iff it has an entry
PPContent(comps) ==
  /\ PPKind(comps[1]) = "trend" /\ Len(OfKind(comps, "trend")) = 1
  /\ Len(OfKind(comps, "trend rate change")) = (IF m.n_changepoints > 0 THEN 1 ELSE 0)
  /\ [k \in 1..Len(OfKind(comps, "seasonality")) |-> OfKind(comps, "seasonality")[k].comp_name]
       = [k \in 1..Len(m.config_season) |-> m.config_season[k].name]
  /\ Len(OfKind(comps, "ar")) = (IF m.n_lags > 0 THEN 1 ELSE 0)
  /\ LET vec == Configured(m.config_lagged_regressors, LAMBDA r : ~r.as_scalar) IN
       [k \in 1..Len(OfKind(comps, "lagged regressor")) |-> OfKind(comps, "lagged regressor")[k].comp_name]
         = [k \in 1..Len(vec) |-> PM.LaggedRegressorQ \o vec[k].name \o PM.Quote]
  /\ Len(OfKind(comps, "lagged scalar"))
       = (IF Len(Configured(m.config_lagged_regressors, LAMBDA r : r.as_scalar)) > 0 THEN 1 ELSE 0)
  /\ Len(OfKind(comps, "additive event"))
       = (IF Len(Configured(m.config_country_holidays \o m.config_events, LAMBDA e : e.mode = "additive")) > 0 THEN 1 ELSE 0)
  /\ Len(OfKind(comps, "multiplicative event"))
       = (IF Len(Configured(m.config_country_holidays \o m.config_events, LAMBDA e : e.mode # "additive")) > 0 THEN 1 ELSE 0)
  /\ Len(OfKind(comps, "additive future"))
       = (IF Len(Configured(m.config_regressors, LAMBDA e : e.mode = "additive")) > 0 THEN 1 ELSE 0)
  /\ Len(OfKind(comps, "multiplicative future"))
       = (IF Len(Configured(m.config_regressors, LAMBDA e : e.mode # "additive")) > 0 THEN 1 ELSE 0)
  /\ Len(OfKind(comps, "other")) = 0

\* the kinds of the list follow each other as in `order`
InOrder(comps, order) ==
  \A i, j \in 1..Len(comps) :
    i < j => \E a, b \in 1..Len(order) : a <= b /\ order[a] = PPKind(comps[i]) /\ order[b] = PPKind(comps[j])

\* the component list of the call of caller 1, once it is built (line 197)
PPBuilt == pc[1] = "render" /\ loc[1].i = 1

\* C8 as stated: the lagged scalar aggregate with the lagged regressors, then
\* the event aggregates, and only after them the future-regressor aggregates.
C8_EventsBeforeFutureRegressors ==
  PPBuilt =>
    /\ PPContent(loc[1].sel.components)
    /\ InOrder(loc[1].sel.components,
               <<"trend", "trend rate change", "seasonality", "ar", "lagged regressor", "lagged scalar",
                 "additive event", "multiplicative event", "additive future", "multiplicative future">>)

\* C8 as amended: Trend, Trend Rate Change iff n_changepoints > 0, the
\* seasonalities in configuration order, the AR entry iff n_lags > 0, one
\* entry per non-scalar lagged regressor, the additive then multiplicative
\* future-regressor aggregates, the "Lagged scalar regressor" aggregate, and
\* last the additive then multiplicative event aggregates.
C8_FutureRegressorsBeforeEvents ==
  PPBuilt =>
    /\ PPContent(loc[1].sel.components)
    /\ InOrder(loc[1].sel.components,
               <<"trend", "trend rate change", "seasonality", "ar", "lagged regressor",
                 "additive future", "multiplicative future", "lagged scalar",
                 "additive event", "multiplicative event">>)

\* a list with every kind of entry in it
C8_Witness ==
  /\ PPBuilt
  /\ \A kind \in {"trend", "trend rate change", "seasonality", "ar", "lagged regressor", "lagged scalar",
                  "additive event", "multiplicative event", "additive future", "multiplicative future"} :
       Len(OfKind(loc[1].sel.components, kind)) > 0
  /\ Len(OfKind(loc[1].sel.components, "seasonality")) > 1

(***************************************************************************)
(* plot_scalar_weights on its own.                                         *)
(***************************************************************************)
\* no model: the function under study does not read one
NoModel == [global_normalization |-> TRUE]

\* the entries of a weight array of k elements: rising or falling values
WeightValues(k) == {[j \in 1..k |-> 3 * j + 1], [j \in 1..k |-> 20 - 7 * j]}

\* the weight arrays of a model with n forecast steps: scalars, vectors over
\* the forecast steps, the same with axes of length one, and matrices
WeightArrays(n) ==
  {[shape |-> s, data |-> v] : s \in {<<>>, <<1>>, <<1, 1>>}, v \in WeightValues(1)}
  \cup {[shape |-> s, data |-> v] : s \in {<<n>>, <<1, n>>, <<n, 1>>}, v \in WeightValues(n)}
  \cup {[shape |-> s, data |-> v] : s \in {<<2, n>>, <<n, 2>>}, v \in WeightValues(2 * n)}

\* the names of the entries, by position
EntryNames == <<Names.temp, Names.rain, Names.wind, Names.load, Names.sale, Names.fair, Names.xmas>>

\* the lists of at most MaxEntries (name, weights) tuples
WeightLists(n) ==
  UNION {[1..len -> WeightArrays(n)] : len \in 0..MaxEntries}

InitScalar ==
  /\ m = NoModel
  /\ unknown_data_normalization = FALSE
  /\ hist = [flag0 |-> FALSE, raised |-> FALSE, interfered |-> [p \in Callers |-> FALSE]]
  /\ fcst = NoTable /\ comp = NoCompCall /\ props = NoPropsCall /\ season = NoSeasonCall
  /\ pc = [p \in Callers |-> "idle"]
  /\ args = [p \in Callers |-> NoCall]
  /\ loc = [p \in Callers |-> NoLocals]
  /\ out = [p \in Callers |-> NoOutput]
  /\ ncalls = [p \in Callers |-> 0]
  /\ \E n \in 2..MaxForecasts :
       \E ws \in WeightLists(n), focus \in {NoFocus} \cup 1..n,
          plot_name \in {PM.AdditiveFutureRegressor, PM.LaggedScalarRegressor} :
         sw = [called |-> FALSE, n_forecasts |-> n,
               weights |-> [k \in 1..Len(ws) |-> [name |-> EntryNames[k], weights |-> ws[k]]],
               plot_name |-> plot_name, focus |-> focus]

\* plot_scalar_weights(weights, plot_name, focus, ax)
PlotScalarWeights ==
  /\ ~sw.called
  /\ sw' = [called |-> TRUE, n_forecasts |-> sw.n_forecasts, weights |-> sw.weights,
            plot_name |-> sw.plot_name, focus |-> sw.focus,
            drawn |-> plot_scalar_weights(sw.weights, sw.plot_name, sw.focus)]
  /\ UNCHANGED <<m, unknown_data_normalization, pc, args, loc, out, ncalls, hist, fcst, comp, props, season>>

NextScalar == PlotScalarWeights

SpecScalar == InitScalar /\ [][NextScalar]_vars

\* the number of axes of a weight array that are longer than one
LongAxes(w) == Cardinality({i \in 1..Len(w.shape) : w.shape[i] # 1})

\* the bar that the claim expects for a weight with at most one long axis
ExpectedHeight(w, focus) ==
  IF LongAxes(w) = 0 THEN Frac(w.data[1], 1)
  ELSE IF focus # NoFocus THEN Frac(w.data[(focus - 1) + 1], 1)
  ELSE Frac(SumSeq(w.data), Len(w.data))

\* C6: plot_scalar_weights raises ValueError when a weight has more than one
\* dimension after squeezing; otherwise it draws one bar per entry: the
\* weight itself when scalar, element focus-1 of the vector when focus is
\* given, the mean of the vector when focus is None.
C6_ScalarWeightsBars ==
  sw.called =>
    IF \E k \in 1..Len(sw.weights) : LongAxes(sw.weights[k].weights) > 1
    THEN sw.drawn.raised = "ValueError" /\ sw.drawn.bars = <<>>
    ELSE /\ sw.drawn.raised = "none"
         /\ Len(sw.drawn.bars) = Len(sw.weights)
         /\ \A k \in 1..Len(sw.weights) :
              /\ sw.drawn.bars[k].x = sw.weights[k].name
              /\ sw.drawn.bars[k].height = ExpectedHeight(sw.weights[k].weights, sw.focus)

\* bars were drawn for a scalar and for a vector, with a focus beyond the first step
C6_Witness ==
  /\ sw.called /\ sw.drawn.raised = "none"
  /\ sw.focus > 1
  /\ \E k \in 1..Len(sw.weights) : LongAxes(sw.weights[k].weights) = 0
  /\ \E k \in 1..Len(sw.weights) : LongAxes(sw.weights[k].weights) = 1

(***************************************************************************)
(* plot_components on one model and one forecast table.                    *)
(***************************************************************************)
\* the quantile lists of the models whose components are plotted
CompQuantileLists == {<<500>>, <<500, 100, 900>>}

\* models without changepoints, future regressors or events (plot_components
\* reads none of them); lagged regressors come with autoregression lags
CompConfigs ==
  { c \in ConfigSet({<<>>, <<[name |-> Names.weekly, period |-> 700]>>,
                     <<[name |-> Names.hourly, period |-> 2950], [name |-> Names.weekly, period |-> 700]>>},
                    {0, 2}, CompQuantileLists, 1..MaxForecasts, {<<>>}, {<<>>}, {<<>>},
                    {<<>>, <<[name |-> Names.wind, as_scalar |-> FALSE, n_lags |-> 2]>>}) :
      /\ c.global_normalization /\ c.n_changepoints = 0
      /\ (c.season_mode = "multiplicative" <=> Len(c.config_season) > 1)
      /\ (c.config_lagged_regressors # <<>> => c.n_lags > 0) }

\* a column of values starting at row `first`, missing before it
Cells(name, first) == [r \in 1..MaxRows |-> IF r < first THEN NaN ELSE <<Len(name) + r>>]

\* a column of missing values
Missing == [r \in 1..MaxRows |-> NaN]

\* the table with the given (name, column) pairs
TableOf(cols) == [c \in {p[1] : p \in cols} |-> (CHOOSE p \in cols : p[1] = c)[2]]

\* the columns every table has
BaseColumns == {<<PF.ds, [r \in 1..MaxRows |-> <<1440 * r>>]>>, <<PF.y, Cells(PF.y, 1)>>}

\* the columns m.predict computes for the configuration of the model; the
\* column of a quantile above the median repeats the point prediction
ModelColumns(c) ==
  {<<PM.trend, Cells(PM.trend, 1)>>}
  \cup {<<PF.season_ \o c.config_season[k].name, Cells(c.config_season[k].name, 1)>> : k \in 1..Len(c.config_season)}
  \cup {<<ColYhat(h), Cells(ColYhat(h), h)>> : h \in 1..c.n_forecasts}
  \cup {<<ColAR(h), Cells(ColAR(h), h)>> : h \in {i \in 1..c.n_forecasts : c.n_lags > 0}}
  \cup UNION {{<<ColLagged(c.config_lagged_regressors[k].name, h), Cells(ColLagged(c.config_lagged_regressors[k].name, h), h)>> :
                 h \in 1..c.n_forecasts} : k \in 1..Len(c.config_lagged_regressors)}
  \cup UNION {{<<ColQuantile(h, c.quantiles[i]),
                  Cells(IF c.quantiles[i] > 500 THEN ColYhat(h) ELSE ColQuantile(h, c.quantiles[i]), h)>> :
                 h \in 1..c.n_forecasts} : i \in 2..Len(c.quantiles)}

\* the event and future-regressor aggregates a table may carry
AggregateSets ==
  {{}, {PF.events_multiplicative, PF.future_regressors_additive},
   {PF.events_additive, PF.events_multiplicative, PF.future_regressors_additive, PF.future_regressors_multiplicative}}

\* the residual columns of a table
ResidualPatterns == {"absent", "values", "all_missing", "first_missing", "first_only"}
ResidualColumns(c, pattern) ==
  CASE pattern = "absent" -> {}
    [] pattern = "values" -> {<<ColResidual(h), Cells(ColResidual(h), h)>> : h \in 1..c.n_forecasts}
    [] pattern = "all_missing" -> {<<ColResidual(h), Missing>> : h \in 1..c.n_forecasts}
    [] pattern = "first_missing" ->
         {<<ColResidual(h), IF h = 1 THEN Missing ELSE Cells(ColResidual(h), h)>> : h \in 1..c.n_forecasts}
    [] pattern = "first_only" -> {<<ColResidual(1), Cells(ColResidual(1), 1)>>}

\* the forecast tables handed to plot_components for a model
CompTables(c) ==
  {TableOf(BaseColumns \cup (IF full THEN ModelColumns(c) ELSE {})
           \cup {<<a, Cells(a, 1)>> : a \in aggs} \cup ResidualColumns(c, pattern)) :
     full \in BOOLEAN, aggs \in AggregateSets, pattern \in ResidualPatterns}

NoFigure == EmptyFigure(0)

InitComp ==
  /\ m \in CompConfigs
  /\ fcst \in CompTables(m)
  /\ comp = NoCompCall
  /\ sw = NoScalarCall
  /\ props = NoPropsCall
  /\ season = NoSeasonCall
  /\ unknown_data_normalization = FALSE
  /\ hist = [flag0 |-> FALSE, raised |-> FALSE, interfered |-> [p \in Callers |-> FALSE]]
  /\ pc = [p \in Callers |-> "idle"]
  /\ args = [p \in Callers |-> NoCall]
  /\ loc = [p \in Callers |-> NoLocals]
  /\ out = [p \in Callers |-> NoOutput]
  /\ ncalls = [p \in Callers |-> 0]

\* plot_components, lines 242-378: the components to plot and their panels
SelectComponents(forecast_in_focus, residuals, one_period_per_season) ==
  /\ comp.stage = "idle"
  /\ LET sel == pc_select(m, fcst, forecast_in_focus, residuals) IN
     \E listing \in PanelListings(sel.components) :
       LET layout == pc_layout(sel.components, listing) IN
       comp' = [stage |-> IF sel.raised = "none" THEN "selected" ELSE "raised",
                forecast_in_focus |-> forecast_in_focus, residuals |-> residuals,
                one_period_per_season |-> one_period_per_season,
                raised |-> sel.raised, components |-> sel.components,
                panel_order |-> layout.panel_order, npanel |-> layout.npanel,
                rendered |-> <<>>, fig |-> NoFigure]
  /\ UNCHANGED <<m, unknown_data_normalization, pc, args, loc, out, ncalls, hist, fcst, sw, props, season>>

\* plot_components, lines 380-440: the figure
RenderComponents ==
  /\ comp.stage = "selected"
  /\ LET r == pc_render(m, fcst, comp.one_period_per_season, comp.components,
                        [panel_order |-> comp.panel_order, npanel |-> comp.npanel])
     IN comp' = [comp EXCEPT !.stage = IF r.fig.raised = "none" THEN "returned" ELSE "raised",
                             !.raised = r.fig.raised, !.rendered = r.components, !.fig = r.fig]
  /\ UNCHANGED <<m, unknown_data_normalization, pc, args, loc, out, ncalls, hist, fcst, sw, props, season>>

NextComp ==
  \/ \E focus \in {NoFocus} \cup 1..m.n_forecasts, residuals \in BOOLEAN, one_period_per_season \in BOOLEAN :
       SelectComponents(focus, residuals, one_period_per_season)
  \/ RenderComponents

SpecComp == InitComp /\ [][NextComp]_vars

(***************************************************************************)
(* The descriptor list of plot_components.                                 *)
(***************************************************************************)
\* the component list is built (line 373 reached without an exception)
PCBuilt == comp.stage # "idle" /\ comp.components # <<>>

\* the kind of a descriptor of plot_components, read from the column it names
PCKind(c) ==
  IF c.comp_name = PM.trend THEN "trend"
  ELSE IF c.plot_name = c.comp_name \o PF.SpSeasonality THEN "seasonality"
  ELSE IF c.plot_name = PF.Uncertainty THEN "uncertainty"
  ELSE IF c.comp_name = PF.events_additive THEN "additive events"
  ELSE IF c.comp_name = PF.events_multiplicative THEN "multiplicative events"
  ELSE IF c.comp_name = PF.future_regressors_additive THEN "additive future"
  ELSE IF c.comp_name = PF.future_regressors_multiplicative THEN "multiplicative future"
  ELSE IF StartsWith(c.comp_name, PF.lagged_regressor_) THEN "lagged regressor"
  ELSE IF StartsWith(c.comp_name, PF.residual) THEN "residual"
  ELSE IF StartsWith(c.comp_name, PF.ar) THEN "ar"
  ELSE "other"

\* the descriptors of plot_components of the given kind, in list order
PCOfKind(comps, kind) == SelectSeq(comps, LAMBDA c : PCKind(c) = kind)

\* the kinds of the list follow each other as in `order`
PCInOrder(comps, order) ==
  \A i, j \in 1..Len(comps) :
    i < j => \E a, b \in 1..Len(order) : a <= b /\ order[a] = PCKind(comps[i]) /\ order[b] = PCKind(comps[j])

\* the entries the configuration of the model decides: one Trend entry first,
\* the seasonalities in configuration order, the autoregression entry iff
\* n_lags > 0 (the overlay of n_forecasts columns without a focus, column
\* ar{focus} with one), one entry per lagged regressor in configuration order
PCConfigured(comps) ==
  /\ comps[1] = [plot_name |-> PM.Trend, comp_name |-> PM.trend]
  /\ Len(PCOfKind(comps, "trend")) = 1
  /\ [k \in 1..Len(PCOfKind(comps, "seasonality")) |-> PCOfKind(comps, "seasonality")[k].comp_name]
       = [k \in 1..Len(m.config_season) |-> m.config_season[k].name]
  /\ Len(PCOfKind(comps, "ar")) = (IF m.n_lags > 0 THEN 1 ELSE 0)
  /\ \A k \in 1..Len(PCOfKind(comps, "ar")) :
       LET c == PCOfKind(comps, "ar")[k] IN
       IF comp.forecast_in_focus = NoFocus
       THEN c.comp_name = PF.ar /\ "num_overplot" \in DOMAIN c /\ c.num_overplot = m.n_forecasts
       ELSE c.comp_name = PF.ar \o IntToStr(comp.forecast_in_focus) /\ "num_overplot" \notin DOMAIN c
  /\ Len(PCOfKind(comps, "lagged regressor")) = Len(m.config_lagged_regressors)
  /\ \A k \in 1..Len(PCOfKind(comps, "lagged regressor")) :
       StartsWith(PCOfKind(comps, "lagged regressor")[k].comp_name,
                  PF.lagged_regressor_ \o m.config_lagged_regressors[k].name)
  /\ Len(PCOfKind(comps, "uncertainty")) = Len(m.quantiles) - 1
  /\ Len(PCOfKind(comps, "other")) = 0

\* the entries the table decides: each aggregate iff its column is in the table
PCAggregates(comps) ==
  /\ Len(PCOfKind(comps, "additive events")) = (IF PF.events_additive \in DOMAIN fcst THEN 1 ELSE 0)
  /\ Len(PCOfKind(comps, "multiplicative events")) = (IF PF.events_multiplicative \in DOMAIN fcst THEN 1 ELSE 0)
  /\ Len(PCOfKind(comps, "additive future")) = (IF PF.future_regressors_additive \in DOMAIN fcst THEN 1 ELSE 0)
  /\ Len(PCOfKind(comps, "multiplicative future"))
       = (IF PF.future_regressors_multiplicative \in DOMAIN fcst THEN 1 ELSE 0)

\* C7: the descriptor list of plot_components is ordered Trend, the
\* seasonalities in configuration order, the autoregression entry (overlay
\* of n_forecasts without a focus, column ar{focus} with one), one entry per
\* lagged regressor, additive then multiplicative events, additive then
\* multiplicative future regressors, the residual entry, the Uncertainty
\* entries, for every model configuration and table.
C7_ComponentOrder ==
  PCBuilt =>
    /\ PCConfigured(comp.components)
    /\ PCAggregates(comp.components)
    /\ PCInOrder(comp.components,
                 <<"trend", "seasonality", "ar", "lagged regressor", "additive events", "multiplicative events",
                   "additive future", "multiplicative future", "residual", "uncertainty">>)

\* a list with every kind of entry in it, two seasonalities and two Uncertainty entries
C7_Witness ==
  /\ PCBuilt
  /\ \A kind \in {"trend", "seasonality", "ar", "lagged regressor", "additive events", "multiplicative events",
                  "additive future", "multiplicative future", "residual", "uncertainty"} :
       Len(PCOfKind(comp.components, kind)) > 0
  /\ Len(PCOfKind(comp.components, "seasonality")) > 1
  /\ Len(PCOfKind(comp.components, "uncertainty")) > 1

\* the table has no other column than ds and y
OnlyDsAndY == DOMAIN fcst = {PF.ds, PF.y}

\* the selection of plot_components has run
PCSelected == comp.stage # "idle"

\* the selection ended with the exception of a residual column that the table lacks
PCNoResidualColumn ==
  /\ comp.raised = "KeyError" /\ comp.components = <<>>
  /\ comp.residuals
  /\ ColResidual(IF comp.forecast_in_focus = NoFocus THEN 1 ELSE comp.forecast_in_focus) \notin DOMAIN fcst

\* C9 as stated: on a table whose only columns are ds and y the selection is
\* the single trend descriptor, whatever the model configuration declares.
C9_TrendOnlyWithoutColumns ==
  (PCSelected /\ OnlyDsAndY) => comp.components = <<[plot_name |-> PM.Trend, comp_name |-> PM.trend]>>

\* C9 as amended: on a table whose only columns are ds and y, a selection
\* with residuals requested raises KeyError on the absent residual column;
\* otherwise the list holds no event, future-regressor or residual entry and
\* is the trend descriptor followed by the entries the configuration
\* declares (seasonalities, autoregression, lagged regressors, Uncertainty),
\* so that it is the single trend descriptor exactly when the model declares
\* no seasonality, no lags, no lagged regressor and a single quantile.
C9_TrendAndConfiguredEntries ==
  (PCSelected /\ OnlyDsAndY) =>
    IF comp.residuals THEN PCNoResidualColumn
    ELSE /\ PCBuilt
         /\ PCConfigured(comp.components)
         /\ \A kind \in {"additive events", "multiplicative events", "additive future", "multiplicative future",
                         "residual"} : Len(PCOfKind(comp.components, kind)) = 0
         /\ (comp.components = <<[plot_name |-> PM.Trend, comp_name |-> PM.trend]>>
               <=> /\ m.config_season = <<>> /\ m.n_lags = 0
                   /\ m.config_lagged_regressors = <<>> /\ Len(m.quantiles) = 1)

\* a table of ds and y only, and a model with seasonalities, lags, a lagged
\* regressor and quantiles: their entries follow the trend descriptor
C9_Witness ==
  /\ PCSelected /\ OnlyDsAndY /\ ~comp.residuals
  /\ Len(comp.components) > 1
  /\ \A kind \in {"seasonality", "ar", "lagged regressor", "uncertainty"} :
       Len(PCOfKind(comp.components, kind)) > 0

\* the horizon of the single residual descriptor
ResidualHorizon == IF comp.forecast_in_focus = NoFocus THEN 1 ELSE comp.forecast_in_focus

\* C10: plot_components emits at most one residual descriptor and only when
\* residuals are requested.  Without a focus and with n_forecasts > 1 it is
\* the overlay descriptor (stem "residual", num_overplot = n_forecasts),
\* emitted iff residual1 has a non-missing value; otherwise it is the
\* descriptor of column residual{h} (h the focus, or 1 without one), emitted
\* iff that column has a non-missing value.  A requested residual column
\* that the table lacks ends the selection with KeyError.
C10_ResidualDescriptor ==
  PCSelected =>
    IF ~PCBuilt THEN PCNoResidualColumn
    ELSE LET res == PCOfKind(comp.components, "residual")
             overlay == comp.forecast_in_focus = NoFocus /\ m.n_forecasts > 1
             column == ColResidual(ResidualHorizon)
         IN /\ Len(res) <= 1
            /\ Len(res) = 1 <=> (comp.residuals /\ Count(fcst[column]) > 0)
            /\ Len(res) = 1 =>
                 IF overlay
                 THEN res[1] = [plot_name |-> PF.Residuals, comp_name |-> PF.residual,
                                num_overplot |-> m.n_forecasts, bar |-> TRUE]
                 ELSE /\ res[1].comp_name = column
                      /\ "num_overplot" \notin DOMAIN res[1]

\* residuals requested without a focus on a multi-step model whose residual1
\* column has values: the overlay descriptor is in the list
C10_Witness ==
  /\ PCBuilt /\ comp.residuals
  /\ comp.forecast_in_focus = NoFocus /\ m.n_forecasts > 1
  /\ Count(fcst[ColResidual(1)]) > 0
  /\ Len(PCOfKind(comp.components, "residual")) = 1

\* the horizon of the Uncertainty descriptors: 1 without a focus, the focus with one
UncertaintyHorizon == IF comp.forecast_in_focus = NoFocus THEN 1 ELSE comp.forecast_in_focus

\* C11: plot_components emits Uncertainty descriptors iff more than one
\* quantile is configured: len(quantiles) - 1 of them, one per quantile from
\* index 1 on in quantile order, after every other descriptor, each with fill
\* set and naming column "yhat{h} {100*q}%", h being 1 without a focus and
\* the focus (also stored as num_overplot) with one.
C11_UncertaintyDescriptors ==
  PCBuilt =>
    LET comps == comp.components
        n == Len(m.quantiles) - 1
        first == Len(comps) - n
    IN /\ (\E k \in 1..Len(comps) : comps[k].plot_name = PF.Uncertainty) <=> Len(m.quantiles) > 1
       /\ first >= 1
       /\ \A k \in 1..first : comps[k].plot_name # PF.Uncertainty
       /\ \A i \in 1..n :
            LET c == comps[first + i] IN
            /\ c.plot_name = PF.Uncertainty
            /\ c.fill
            /\ c.comp_name = PF.yhat \o IntToStr(UncertaintyHorizon) \o PF.Space
                               \o FormatPct(m.quantiles[i + 1]) \o PF.Percent
            /\ IF comp.forecast_in_focus = NoFocus
               THEN "num_overplot" \notin DOMAIN c
               ELSE "num_overplot" \in DOMAIN c /\ c.num_overplot = comp.forecast_in_focus

\* two Uncertainty entries of a focused horizon other than 1, after a residual entry
C11_Witness ==
  /\ PCBuilt
  /\ comp.forecast_in_focus > 1
  /\ Len(m.quantiles) = 3
  /\ Len(PCOfKind(comp.components, "uncertainty")) = 2
  /\ Len(PCOfKind(comp.components, "residual")) = 1

(***************************************************************************)
(* The two forecast props functions called directly:                       *)
(* get_forecast_component_props and get_multiforecast_component_props are  *)
(* applied once to a table and arguments drawn from bounded sets.          *)
(***************************************************************************)
MaxRolling == 3
MaxOverplot == 3

\* a horizon column: missing before row first (first = MaxRows + 1: all missing)
HorizonCells(h, first) == [r \in 1..MaxRows |-> IF r < first THEN NaN ELSE <<r * r + h>>]

\* ds, trend, and yhat<h> and residual<h> for every horizon; residual<h> starts
\* at any row or has no value at all
PropTables ==
  {TableOf({<<PF.ds, [r \in 1..MaxRows |-> <<r>>]>>, <<PM.trend, Cells(PM.trend, 1)>>}
           \cup {<<ColYhat(h), HorizonCells(10 + h, h)>> : h \in 1..MaxOverplot}
           \cup {<<ColResidual(h), HorizonCells(h, first[h])>> : h \in 1..MaxOverplot}) :
     first \in [1..MaxOverplot -> 1..(MaxRows + 1)]}

InitProps ==
  /\ m = NoModel
  /\ unknown_data_normalization = FALSE
  /\ pc = [c \in Callers |-> "idle"]
  /\ args = [c \in Callers |-> NoCall]
  /\ loc = [c \in Callers |-> NoLocals]
  /\ out = [c \in Callers |-> NoOutput]
  /\ ncalls = [c \in Callers |-> 0]
  /\ hist = [initial |-> FALSE, raised |-> FALSE, interfered |-> FALSE]
  /\ fcst \in PropTables
  /\ comp = NoCompCall
  /\ sw = NoScalarCall
  /\ props = NoPropsCall
  /\ season = NoSeasonCall

\* get_forecast_component_props(fcst, comp_name, plot_name, bar=bar, rolling=rolling, add_x=add_x, ...)
ForecastComponentProps(comp_name, plot_name, bar, rolling, add_x, fill, num_overplot, view) ==
  /\ props.fn = "none"
  /\ props' = [fn |-> "get_forecast_component_props", comp_name |-> comp_name, plot_name |-> plot_name,
               bar |-> bar, rolling |-> rolling, add_x |-> add_x, fill |-> fill,
               num_overplot |-> num_overplot, view |-> view,
               result |-> get_forecast_component_props(fcst, comp_name, plot_name, FALSE, bar, rolling,
                                                       add_x, fill, num_overplot, view)]
  /\ UNCHANGED <<m, unknown_data_normalization, pc, args, loc, out, ncalls, hist, fcst, comp, sw, season>>

\* get_multiforecast_component_props(fcst, comp_name, plot_name, bar=bar, num_overplot=num_overplot)
MultiforecastComponentProps(comp_name, plot_name, bar, num_overplot) ==
  /\ props.fn = "none"
  /\ props' = [fn |-> "get_multiforecast_component_props", comp_name |-> comp_name, plot_name |-> plot_name,
               bar |-> bar, rolling |-> NoRolling, add_x |-> FALSE, fill |-> FALSE,
               num_overplot |-> num_overplot, view |-> TRUE,
               result |-> get_multiforecast_component_props(fcst, comp_name, plot_name, FALSE, bar, num_overplot)]
  /\ UNCHANGED <<m, unknown_data_normalization, pc, args, loc, out, ncalls, hist, fcst, comp, sw, season>>

\* the component and plot names of the calls
PropNames ==
  {<<ColResidual(h), PF.Residuals>> : h \in 1..MaxOverplot}
  \cup {<<ColResidual(h), PF.Uncertainty>> : h \in 1..MaxOverplot}
  \cup {<<ColYhat(1), PF.yhat>>, <<PM.trend, PM.Trend>>}

NextProps ==
  \/ /\ props.fn = "none"
     /\ \E n \in PropNames, bar \in BOOLEAN, rolling \in {NoRolling} \cup 1..MaxRolling, add_x \in BOOLEAN,
           fill \in BOOLEAN, num_overplot \in {NoFocus} \cup 1..MaxOverplot, view \in BOOLEAN :
          /\ Contains(Lower(n[2]), PF.uncertainty) \/ (~fill /\ num_overplot = NoFocus)
          /\ ForecastComponentProps(n[1], n[2], bar, rolling, add_x, fill, num_overplot, view)
  \/ /\ props.fn = "none"
     /\ \E n \in PropNames \cup {<<PF.residual, PF.Residuals>>, <<PF.yhat, PF.yhat>>}, bar \in BOOLEAN,
           num_overplot \in {NoFocus} \cup 1..MaxOverplot :
          MultiforecastComponentProps(n[1], n[2], bar, num_overplot)

SpecProps == InitProps /\ [][NextProps]_vars

(***************************************************************************)
(* Claims about the two forecast props functions                           *)
(***************************************************************************)
PropsReturned == props.fn # "none" /\ props.result.raised = "none"

PropsResidual == PropsReturned /\ Contains(props.comp_name, PF.residual)

\* a plotted value that is exactly 0 (a rolling mean is 0 iff its sum is)
IsZero(cell) == Len(cell) >= 1 /\ cell[1] = 0

EndsInZero(trace) == Len(trace.y) > 0 /\ IsZero(trace.y[Len(trace.y)])

\* the number of traces get_forecast_component_props draws before the main one
UnderlayCount == IF props.rolling = NoRolling THEN 0 ELSE IF props.add_x THEN 2 ELSE 1

\* the rows of the table the call of get_forecast_component_props keeps
PropsRows == Loc(fcst, NotNa(fcst[props.comp_name]))

\* C12 as stated: every trace the two functions draw for a residual component,
\* the rolling underlay included, ends in exactly 0.
C12_EveryResidualTraceEndsInZero ==
  PropsResidual => \A k \in 1..Len(props.result.traces) : EndsInZero(props.result.traces[k])

\* C12 amended: when the function returns for a residual component, the single
\* trace and every overlay trace of get_multiforecast_component_props end in 0,
\* and so does the main trace of get_forecast_component_props under a plot name
\* without "uncertainty"; the rolling underlay is the rolling mean of the
\* column as the table has it, so with a non-zero last residual it does not
\* end in 0.
C12_MainResidualTracesEndInZero ==
  PropsResidual =>
    LET traces == props.result.traces IN
    IF props.fn = "get_multiforecast_component_props"
    THEN /\ Len(traces) = (IF props.num_overplot = NoFocus THEN 1 ELSE props.num_overplot)
         /\ \A k \in 1..Len(traces) : EndsInZero(traces[k])
    ELSE /\ Len(traces) > UnderlayCount
         /\ ~Contains(Lower(props.plot_name), PF.uncertainty) => EndsInZero(traces[UnderlayCount + 1])
         /\ props.rolling # NoRolling =>
              /\ traces[1].y = RollingMean(PropsRows[props.comp_name], props.rolling)
              /\ ~IsZero(PropsRows[props.comp_name][Len(traces[1].y)]) => ~EndsInZero(traces[1])

C12_Witness ==
  /\ PropsResidual
  /\ props.fn = "get_forecast_component_props"
  /\ props.rolling = 2 /\ props.add_x
  /\ ~Contains(Lower(props.plot_name), PF.uncertainty)
  /\ Len(props.result.traces) = 4
  /\ Len(props.result.traces[3].y) = MaxRows
  /\ ~IsZero(fcst[props.comp_name][MaxRows])

\* the call of get_forecast_component_props in props, without rolling
WithoutRolling ==
  get_forecast_component_props(fcst, props.comp_name, props.plot_name, FALSE, props.bar, NoRolling,
                               props.add_x, props.fill, props.num_overplot, props.view)

\* the rows of the column that the rolling window of row i covers
Window(i, W, n) == {r \in 1..n : i + ((W - 1) \div 2) - W + 1 <= r /\ r <= i + ((W - 1) \div 2)}

RECURSIVE SumOver(_, _)
SumOver(col, rows) ==
  IF rows = {} THEN 0 ELSE LET r == CHOOSE q \in rows : TRUE IN col[r][1] + SumOver(col, rows \ {r})

\* C14: with rolling = W set, get_forecast_component_props draws before the
\* main trace one underlay of the main trace's type (bar or line) without a
\* legend entry, whose value at row i is the mean of the values of the window
\* of W rows centered at i, cut to the rows that exist; with W = 1 it is the
\* raw series.
C14_RollingUnderlay ==
  (props.fn = "get_forecast_component_props" /\ props.rolling # NoRolling /\ WithoutRolling.raised = "none") =>
    /\ props.result.raised = "none"
    /\ LET main == WithoutRolling.traces[1]
           underlay == props.result.traces[1]
           col == PropsRows[props.comp_name]
       IN /\ Len(props.result.traces) = Len(WithoutRolling.traces) + (IF props.add_x THEN 2 ELSE 1)
          /\ underlay.type = main.type
          /\ ~underlay.showlegend
          /\ Len(underlay.y) = Len(col)
          /\ \A i \in 1..Len(col) :
               LET rows == Window(i, props.rolling, Len(col)) IN
               /\ rows # {}
               /\ underlay.y[i][1] * Cardinality(rows) = SumOver(col, rows) * underlay.y[i][2]
               /\ props.rolling = 1 => underlay.y[i][1] = col[i][1] * underlay.y[i][2]

\* the same for a line: the case in which the underlay is drawn
C14_LineUnderlay == (props.fn = "get_forecast_component_props" /\ ~props.bar) => C14_RollingUnderlay

\* a returned call of get_multiforecast_component_props with num_overplot set
PropsOverlay ==
  PropsReturned /\ props.fn = "get_multiforecast_component_props" /\ props.num_overplot # NoFocus

FracLess(a, b) == a.num * b.den < b.num * a.den

FracEq(a, b) == a.num * b.den = b.num * a.den

\* the rows get_multiforecast_component_props keeps for an overlay (line 640)
OverlayRows ==
  Loc(fcst, NotNa(fcst[props.comp_name \o IntToStr(1)])
            \cup NotNa(fcst[props.comp_name \o IntToStr(props.num_overplot)]))

\* C15: an overlay with num_overplot = N is N traces, for the horizons N, N-1,
\* ..., 1 in this order, the k-th reading column comp_name + horizon, and each
\* trace is strictly more opaque than the one drawn before it.
C15_OverlayOrder ==
  PropsOverlay =>
    LET traces == props.result.traces
        N == props.num_overplot
    IN /\ Len(traces) = N
       /\ \A k \in 1..N :
            LET column == props.comp_name \o IntToStr(N - k + 1) IN
            /\ traces[k].column = column
            /\ traces[k].x = OverlayRows[PF.ds]
            /\ Len(traces[k].y) = Len(OverlayRows[column])
            /\ \A r \in 1..Len(traces[k].y) :
                 (r < Len(traces[k].y) \/ ~Contains(props.comp_name, PF.residual))
                   => traces[k].y[r] = OverlayRows[column][r]
       /\ \A k \in 1..(N - 1) : FracLess(traces[k].opacity, traces[k + 1].opacity)
       /\ \A k \in 1..N : traces[k].column = props.comp_name \o IntToStr(1)
                            => \A j \in 1..N : j # k => FracLess(traces[j].opacity, traces[k].opacity)

C15_Witness ==
  /\ PropsOverlay
  /\ props.num_overplot = MaxOverplot
  /\ props.comp_name = PF.residual
  /\ ~props.bar
  /\ Len(props.result.traces) = MaxOverplot
  /\ props.result.traces[MaxOverplot].column = ColResidual(1)
  /\ fcst[ColResidual(1)][1] # NaN /\ fcst[ColResidual(MaxOverplot)][1] = NaN

\* 0.2 + 1.2 * (1 - 0.2) / (i + 1.2), which is (i + 6) / (5 i + 6)
ClaimedAlpha(i) == Frac(i + 6, 5 * i + 6)

\* C16 as stated: the overlay trace that reads column comp_name + i, for i in
\* 1..N, has opacity alpha(i) = 0.2 + 1.2 * (1 - 0.2) / (i + 1.2).
C16_AlphaAtHorizon ==
  PropsOverlay =>
    \A k \in 1..Len(props.result.traces) : \A i \in 1..props.num_overplot :
      props.result.traces[k].column = props.comp_name \o IntToStr(i)
        => FracEq(props.result.traces[k].opacity, ClaimedAlpha(i))

\* C16 amended: the overlay trace that reads column comp_name + i, for i in
\* 1..N, has opacity alpha(i - 1): the formula is evaluated at the loop index,
\* which starts at 0, so the trace of horizon 1 has opacity 1.
C16_AlphaAtLoopIndex ==
  PropsOverlay =>
    /\ \A i \in 1..props.num_overplot :
         \E k \in 1..Len(props.result.traces) :
           props.result.traces[k].column = props.comp_name \o IntToStr(i)
    /\ \A k \in 1..Len(props.result.traces) : \A i \in 1..props.num_overplot :
         props.result.traces[k].column = props.comp_name \o IntToStr(i)
           => /\ FracEq(props.result.traces[k].opacity, ClaimedAlpha(i - 1))
              /\ i = 1 => FracEq(props.result.traces[k].opacity, Frac(1, 1))

C16_Witness ==
  /\ PropsOverlay
  /\ props.num_overplot = MaxOverplot
  /\ props.comp_name = PF.yhat
  /\ props.bar
  /\ FracEq(props.result.traces[1].opacity, ClaimedAlpha(MaxOverplot - 1))
  /\ FracEq(props.result.traces[MaxOverplot].opacity, Frac(1, 1))

(***************************************************************************)
(* Claims about the figure plot_components returns                         *)
(***************************************************************************)
PCReturned == comp.stage = "returned"

\* the traces of the figure with the given name
TracesNamed(name) == {k \in 1..Len(comp.fig.traces) : comp.fig.traces[k].trace.name = name}

\* the column of the point prediction an Uncertainty descriptor belongs to
BaseColumn == ColYhat(UncertaintyHorizon)

\* C13: every Uncertainty descriptor is drawn as one trace filled to zero whose
\* values are, on the rows where the quantile column has a value, that column
\* minus the point-prediction column of the same horizon; it is all zeros when
\* the two columns are equal.
C13_UncertaintyTrace ==
  PCReturned =>
    \A k \in 1..Len(comp.components) :
      LET c == comp.components[k] IN
      c.plot_name = PF.Uncertainty =>
        /\ StartsWith(c.comp_name, BaseColumn \o PF.Space)
        /\ Cardinality(TracesNamed(c.comp_name)) = 1
        /\ LET trace == comp.fig.traces[CHOOSE i \in TracesNamed(c.comp_name) : TRUE].trace
               rows == {r \in 1..MaxRows : fcst[c.comp_name][r] # NaN}
               t == Loc(fcst, rows)
           IN /\ trace.type = "Scatter" /\ trace.fill = "tozeroy"
              /\ trace.x = t[PF.ds]
              /\ Len(trace.y) = Cardinality(rows)
              /\ \A r \in 1..Len(trace.y) :
                   /\ t[BaseColumn][r] # NaN
                   /\ trace.y[r] = <<t[c.comp_name][r][1] - t[BaseColumn][r][1]>>
              /\ fcst[c.comp_name] = fcst[BaseColumn] => \A r \in 1..Len(trace.y) : trace.y[r] = <<0>>

C13_Witness ==
  /\ PCReturned
  /\ comp.forecast_in_focus = 2
  /\ Len(m.quantiles) = 3
  /\ \E i, j \in 1..Len(comp.fig.traces) :
       /\ comp.fig.traces[i].trace.name = ColQuantile(2, 900)
       /\ comp.fig.traces[i].trace.y = [r \in 1..(MaxRows - 1) |-> <<0>>]
       /\ comp.fig.traces[j].trace.name = ColQuantile(2, 100)
       /\ comp.fig.traces[j].trace.fill = "tozeroy"
       /\ comp.fig.traces[j].trace.y[1] # <<0>>

\* the sub-plot row component k is drawn into (line 395, lines 423-435)
RowOf(k) == IndexOf(comp.panel_order, Lower(comp.components[k].plot_name)) + 1

\* component k is the last one drawn into its row, so the axes of the row are its own
LastInRow(k) == \A k2 \in (k + 1)..Len(comp.components) : RowOf(k2) # RowOf(k)

\* component k is drawn by get_seasonality_props (lines 409-414)
OnePeriodSeason(k) ==
  comp.one_period_per_season /\ Contains(Lower(comp.components[k].plot_name), PF.season)

\* C17 as stated: the y-axis of every panel has the descriptor's plot name as
\* its title and range mode "tozero", "normal" for the trend, whichever of the
\* three renderers draws it.
C17_EveryPanelAxis ==
  PCReturned =>
    \A k \in 1..Len(comp.components) :
      LastInRow(k) =>
        LET c == comp.components[k]
            yaxis == comp.fig.yaxis[RowOf(k)]
        IN /\ yaxis.title = c.plot_name
           /\ yaxis.rangemode = IF c.plot_name = PM.Trend THEN "normal" ELSE "tozero"

\* C17 amended: that holds for the panels drawn by
\* get_forecast_component_props and get_multiforecast_component_props; the
\* one-period seasonality renderer titles the axis "Seasonality: " + comp_name
\* and sets no range mode.
C17_PanelAxisByRenderer ==
  PCReturned =>
    \A k \in 1..Len(comp.components) :
      LastInRow(k) =>
        LET c == comp.components[k]
            yaxis == comp.fig.yaxis[RowOf(k)]
        IN IF OnePeriodSeason(k)
           THEN /\ yaxis.title = PF.SeasonalityColon \o c.comp_name
                /\ yaxis.rangemode = "unset"
           ELSE /\ yaxis.title = c.plot_name
                /\ yaxis.rangemode = IF c.plot_name = PM.Trend THEN "normal" ELSE "tozero"

C17_Witness ==
  /\ PCReturned
  /\ comp.one_period_per_season
  /\ Len(m.config_season) = 2
  /\ \E k \in 1..Len(comp.components) : OnePeriodSeason(k) /\ comp.fig.yaxis[RowOf(k)].rangemode = "unset"
  /\ \E k \in 1..Len(comp.components) :
       comp.components[k].plot_name = PF.AutoRegression /\ comp.fig.yaxis[RowOf(k)].rangemode = "tozero"
  /\ comp.fig.yaxis[1].rangemode = "normal"

\* component k of plot_components is multiplicative
PCMultiplicative(k) ==
  LET c == comp.components[k] IN
  \/ c.plot_name \in {PF.MultiplicativeEvents, PF.MultiplicativeFutureRegressors}
  \/ Contains(Lower(c.plot_name), PF.season) /\ m.season_mode = "multiplicative"

\* the y-axis of the row of component k has the percent format
PCPercent(k) == comp.fig.yaxis[RowOf(k)].tickformat = ".1%"

\* C18: in the figure plot_components returns, the y-axis of a panel has the
\* percent format iff its component is multiplicative, for either value of
\* one_period_per_season.
C18_MultiplicativePanelsInPercent ==
  PCReturned => \A k \in 1..Len(comp.components) : LastInRow(k) => (PCPercent(k) <=> PCMultiplicative(k))

\* the same apart from the seasonalities drawn with one_period_per_season = False,
\* which never get the percent format
C18_PercentButForecastSeason ==
  PCReturned =>
    \A k \in 1..Len(comp.components) :
      LastInRow(k) =>
        IF Contains(Lower(comp.components[k].plot_name), PF.season) /\ ~comp.one_period_per_season
        THEN ~PCPercent(k)
        ELSE PCPercent(k) <=> PCMultiplicative(k)

\* the part of C18 about plot_parameters: the axes given to set_y_as_percent
\* are those of the multiplicative panels
C18_ParametersPercent ==
  \A p \in Callers :
    out[p].result = "fig" =>
      out[p].percent_axes =
        {i \in 1..Len(out[p].panels) :
           \/ out[p].panels[i].plot_name \in {PM.MultiplicativeEvent, PM.MultiplicativeFutureRegressor}
           \/ out[p].panels[i].plot_name = PM.Seasonality /\ m.season_mode = "multiplicative"}

\* the rows of the figure that have a trace
RowsDrawn == {comp.fig.traces[i].row : i \in 1..Len(comp.fig.traces)}

\* C19 as stated: the figure of plot_components has one row per descriptor, its
\* height is the per-panel height times the number of descriptors, and no two
\* descriptors are drawn into the same row.
C19_RowPerDescriptor ==
  PCReturned =>
    /\ comp.fig.npanel = Len(comp.components)
    /\ comp.fig.height = 210 * Len(comp.components)
    /\ \A k, k2 \in 1..Len(comp.components) : k # k2 => RowOf(k) # RowOf(k2)

\* C19 amended: the figure has one row per distinct lower-cased plot name and
\* its height is the per-panel height times that number; two descriptors are
\* drawn into the same row iff their lower-cased plot names are equal, as the
\* Uncertainty descriptors' are.
C19_RowPerPlotName ==
  PCReturned =>
    LET names == {Lower(comp.components[k].plot_name) : k \in 1..Len(comp.components)} IN
    /\ comp.fig.npanel = Cardinality(names)
    /\ comp.fig.height = 210 * Cardinality(names)
    /\ \A k \in 1..Len(comp.components) : RowOf(k) \in 1..comp.fig.npanel
    /\ \A k, k2 \in 1..Len(comp.components) :
         RowOf(k) = RowOf(k2) <=> Lower(comp.components[k].plot_name) = Lower(comp.components[k2].plot_name)
    /\ RowsDrawn = {RowOf(k) : k \in 1..Len(comp.components)}
    /\ \A i \in 1..Len(comp.fig.traces) :
         comp.fig.traces[i].trace.fill = "tozeroy" => comp.fig.traces[i].row = comp.fig.npanel

C19_Witness ==
  /\ PCReturned
  /\ Len(m.quantiles) = 3
  /\ Len(comp.components) = 7
  /\ comp.fig.npanel = 6
  /\ comp.fig.height = 1260
  /\ RowOf(6) = 6 /\ RowOf(7) = 6

\* the part of C19 about plot_parameters: the i-th descriptor is drawn on the i-th axis
C19_ParametersAxes ==
  \A p \in Callers :
    \A i \in 1..Len(out[p].panels) :
      /\ out[p].panels[i].ax = i
      /\ pc[p] # "idle" => out[p].panels[i].plot_name = loc[p].sel.components[i].plot_name

(***************************************************************************)
(* plot_weekly and plot_yearly called directly, once, on a model with a    *)
(* weekly and a yearly seasonality                                         *)
(***************************************************************************)
MaxStart == 7

SeasonConfigs ==
  { c \in ConfigSet({<<[name |-> PM.weekly, period |-> 700], [name |-> PM.yearly, period |-> 36525]>>},
                    {0}, QuantileLists, {1}, {<<>>}, {<<>>}, {<<>>}, {<<>>}) : c.n_changepoints = 0 }

\* the default identifier and a series the model was fitted on
SeasonDfNames == {"__df__", "a"}

InitSeason ==
  /\ m \in SeasonConfigs
  /\ unknown_data_normalization \in BOOLEAN
  /\ pc = [c \in Callers |-> "idle"]
  /\ args = [c \in Callers |-> NoCall]
  /\ loc = [c \in Callers |-> NoLocals]
  /\ out = [c \in Callers |-> NoOutput]
  /\ ncalls = [c \in Callers |-> 0]
  /\ hist = [initial |-> unknown_data_normalization, raised |-> FALSE, interfered |-> FALSE]
  /\ fcst = NoTable
  /\ comp = NoCompCall
  /\ sw = NoScalarCall
  /\ props = NoPropsCall
  /\ season = NoSeasonCall

\* plot_weekly(m, quantile, weekly_start=weekly_start, df_name=df_name)
PlotWeekly(quantile, weekly_start, df_name) ==
  /\ season.fn = "none"
  /\ season' = [fn |-> "plot_weekly", start |-> weekly_start, quantile |-> quantile, df_name |-> df_name,
                result |-> plot_weekly(m, unknown_data_normalization, quantile, PM.weekly, weekly_start, df_name)]
  /\ UNCHANGED <<m, unknown_data_normalization, pc, args, loc, out, ncalls, hist, fcst, comp, sw, props>>

\* plot_yearly(m, quantile, yearly_start=yearly_start, df_name=df_name)
PlotYearly(quantile, yearly_start, df_name) ==
  /\ season.fn = "none"
  /\ season' = [fn |-> "plot_yearly", start |-> yearly_start, quantile |-> quantile, df_name |-> df_name,
                result |-> plot_yearly(m, unknown_data_normalization, quantile, PM.yearly, yearly_start, df_name)]
  /\ UNCHANGED <<m, unknown_data_normalization, pc, args, loc, out, ncalls, hist, fcst, comp, sw, props>>

\* plot_custom_season(m, comp_name, quantile, df_name=df_name)
PlotCustomSeason(comp_name, quantile, df_name) ==
  /\ season.fn = "none"
  /\ season' = [fn |-> "plot_custom_season", start |-> 0, quantile |-> quantile, df_name |-> df_name,
                result |-> plot_custom_season(m, unknown_data_normalization, comp_name, quantile, df_name)]
  /\ UNCHANGED <<m, unknown_data_normalization, pc, args, loc, out, ncalls, hist, fcst, comp, sw, props>>

NextSeason ==
  \/ \E quantile \in Quantiles, weekly_start \in 0..MaxStart, df_name \in SeasonDfNames :
       PlotWeekly(quantile, weekly_start, df_name)
  \/ \E quantile \in Quantiles, yearly_start \in 0..MaxStart, df_name \in SeasonDfNames :
       PlotYearly(quantile, yearly_start, df_name)
  \/ \E comp_name \in {PM.weekly, PM.yearly}, quantile \in Quantiles, df_name \in SeasonDfNames :
       PlotCustomSeason(comp_name, quantile, df_name)

SpecSeason == InitSeason /\ [][NextSeason]_vars

\* the timestamps the call of season would ask for with start-day offset 0
DatesAtZero ==
  IF season.fn = "plot_weekly" THEN [k \in 1..168 |-> k - 1] ELSE [k \in 1..365 |-> 24 * (k - 1)]

MaxShortPeriod == 250

SeasonPeriods == {4, 10, 50, 100, 150, 200, 201, 250, 699, 700, 1399, 1400, 2950}

\* 00:00 and 01:00 of the first day, 01:30 of the first day, 00:00 of the second
DsTables == {TableOf({<<PF.ds, [r \in 1..MaxRows |-> <<ds[r]>>]>>}) : ds \in [1..MaxRows -> {0, 60, 90, 1440}]}

SeasonName(period) ==
  IF period = 700 THEN PM.weekly ELSE IF period = 100 THEN PM.daily ELSE Names.hourly

SeasonPropsConfigs ==
  { c \in ConfigSet({<<[name |-> SeasonName(period), period |-> period]>> : period \in SeasonPeriods},
                    {0}, {<<500>>}, {1}, {<<>>}, {<<>>}, {<<>>}, {<<>>}) :
      c.global_normalization /\ c.n_changepoints = 0 /\ c.season_mode = "additive" }

InitSeasonProps ==
  /\ m \in SeasonPropsConfigs
  /\ fcst \in DsTables
  /\ m.config_season[1].period > MaxShortPeriod => \A r \in 1..MaxRows : fcst[PF.ds][r][1] % 1440 = 0
  /\ unknown_data_normalization = FALSE
  /\ pc = [c \in Callers |-> "idle"]
  /\ args = [c \in Callers |-> NoCall]
  /\ loc = [c \in Callers |-> NoLocals]
  /\ out = [c \in Callers |-> NoOutput]
  /\ ncalls = [c \in Callers |-> 0]
  /\ hist = [initial |-> FALSE, raised |-> FALSE, interfered |-> FALSE]
  /\ comp = NoCompCall
  /\ sw = NoScalarCall
  /\ props = NoPropsCall
  /\ season = NoSeasonCall

\* get_seasonality_props(m, fcst, comp_name=comp_name, multiplicative=multiplicative, quick=quick)
SeasonalityProps(comp_name, multiplicative, quick, quick_error) ==
  /\ props.fn = "none"
  /\ props' = [fn |-> "get_seasonality_props", comp_name |-> comp_name, multiplicative |-> multiplicative,
               quick |-> quick,
               result |-> get_seasonality_props(m, fcst, comp_name, multiplicative, quick, quick_error)]
  /\ UNCHANGED <<m, unknown_data_normalization, pc, args, loc, out, ncalls, hist, fcst, comp, sw, season>>

NextSeasonProps ==
  /\ props.fn = "none"
  /\ \E multiplicative \in BOOLEAN, quick \in BOOLEAN, quick_error \in {"AttributeError", "TypeError"} :
       SeasonalityProps(m.config_season[1].name, multiplicative, quick, quick_error)

SpecSeasonProps == InitSeasonProps /\ [][NextSeasonProps]_vars

\* a returned call of get_seasonality_props
SeasonPropsReturned == props.fn = "get_seasonality_props" /\ props.result.raised = "none"

\* C21: the timestamps get_seasonality_props synthesizes for a period of P days
\* start at 2017-01-01 00:00, are evenly spaced and lie in [start, start + P
\* days); there are floor(24 P) of them when every table timestamp is at hour
\* 0, floor(24 * 24 * P) when not but every one is at minute 0, floor(24 * 60 *
\* P) otherwise, and the predicted sequence drawn has that length.
C21_SynthesizedDates ==
  SeasonPropsReturned =>
    LET P == m.config_season[1].period
        ds == fcst[PF.ds]
        n == IF \A r \in 1..Len(ds) : ds[r][1] % 1440 < 60 THEN (24 * P) \div 100
             ELSE IF \A r \in 1..Len(ds) : ds[r][1] % 60 = 0 THEN (24 * 24 * P) \div 100
             ELSE (24 * 60 * P) \div 100
        x == props.result.traces[1].x
    IN /\ Len(props.result.traces) = 1
       /\ Len(x.nums) = n /\ x.den = n
       /\ n > 0 => x.nums[1] = 0
       /\ \A k \in 1..(n - 1) : x.nums[k + 1] - x.nums[k] = x.nums[2] - x.nums[1] /\ x.nums[k + 1] > x.nums[k]
       /\ \A k \in 1..n : 0 <= x.nums[k] /\ x.nums[k] < P * x.den
       /\ Len(props.result.traces[1].y) = n

C21_Witness ==
  /\ SeasonPropsReturned
  /\ m.config_season[1].period = 150
  /\ fcst[PF.ds][1] = <<90>>
  /\ Len(props.result.traces[1].x.nums) = 2160
  /\ Len(props.result.traces[1].y) = 2160

\* the call of get_seasonality_props in props, on the full-prediction path
FullPath == get_seasonality_props(m, fcst, props.comp_name, props.multiplicative, FALSE, "AttributeError")

\* C22: for the same model, seasonality and table, the quick path of
\* get_seasonality_props is issued with the same synthesized timestamps as
\* the full-prediction path and yields a sequence of the same length and values.
C22_QuickEqualsFull ==
  (props.fn = "get_seasonality_props" /\ props.quick) =>
    /\ props.result.raised = "none"
    /\ props.result.traces[1].x = FullPath.traces[1].x
    /\ Len(props.result.traces[1].y) = Len(FullPath.traces[1].y)
    /\ props.result.traces[1].y = FullPath.traces[1].y

\* the seasonality query of the call in season returned
SeasonPredicted == season.fn # "none" /\ season.result.raised = "none"

\* the normalization scale of the target variable for the series of the call
ScaleOfSeries ==
  IF m.global_normalization \/ season.df_name \notin DOMAIN m.local_data_params
  THEN m.global_data_params.y_scale
  ELSE m.local_data_params[season.df_name].y_scale

\* C23: what predict_one_season and predict_season_from_dates return is the
\* model's seasonal output times the scale of the target variable of the
\* given series, once, when the seasonality mode is additive, and the output
\* itself when the mode is multiplicative.
C23_ScaledOnceWhenAdditive ==
  SeasonPredicted =>
    LET query == season.result.query IN
    /\ Len(query.predicted) = Len(query.dates)
    /\ Len(query.output) = Len(query.dates)
    /\ \A k \in 1..Len(query.predicted) :
         query.predicted[k] = IF m.season_mode = "additive" THEN query.output[k] * ScaleOfSeries
                              ELSE query.output[k]

C23_Witness ==
  /\ SeasonPredicted
  /\ season.fn = "plot_custom_season"
  /\ m.season_mode = "additive"
  /\ ~m.global_normalization /\ season.df_name = "a"
  /\ \E k \in 1..301 : season.result.query.output[k] = 2 /\ season.result.query.predicted[k] = 6

(***************************************************************************)
(* plot, lines 43-212: the main forecast chart                             *)
(***************************************************************************)
\* the largest number of prediction columns of a table given to plot
MaxColumns == 3

\* the quantiles of the tables, in per mille, after the median
TableQuantiles == <<100, 900>>

\* f"{colname}{h}" and f"{colname}{h} {round(q * 100, 1)}%"
ColPoint(colname, h) == colname \o IntToStr(h)
ColBand(colname, h, q) == colname \o IntToStr(h) \o PF.Space \o FormatPct(q) \o PF.Percent

\* fcst.columns: ds, y, then for every prediction its column and its quantile columns
PlotColumnOrder(colname, first, n) ==
  <<PF.ds, PF.y>>
  \o [k \in 1..(n * (1 + Len(TableQuantiles))) |->
        LET h == first + ((k - 1) \div (1 + Len(TableQuantiles)))
            j == (k - 1) % (1 + Len(TableQuantiles))
        IN IF j = 0 THEN ColPoint(colname, h) ELSE ColBand(colname, h, TableQuantiles[j])]

\* seq[idx] of Python for a sequence of length len: the position counted from 1, 0 for an IndexError
PyIndex(len, idx) ==
  IF idx < 0 THEN (IF len + idx >= 0 THEN len + idx + 1 ELSE 0)
  ELSE IF idx < len THEN idx + 1 ELSE 0

\* the first exception of a sequence of outcomes, "none" without one
FirstRaised(outcomes) ==
  IF \A k \in 1..Len(outcomes) : outcomes[k] = "none" THEN "none"
  ELSE outcomes[CHOOSE k \in 1..Len(outcomes) :
                  outcomes[k] # "none" /\ \A j \in 1..(k - 1) : outcomes[j] = "none"]

\* lines 88-99: one line per prediction column
plot_lines(t, ds, colname, yhat_col_names_no_qts, line_per_origin) ==
  LET n == Len(yhat_col_names_no_qts)
      column(i) == ColPoint(colname, IF line_per_origin THEN i ELSE i + 1)
  IN IF \E i \in 0..(n - 1) : column(i) \notin DOMAIN t THEN Failed("KeyError")
     ELSE [raised |-> "none",
           traces |-> [k \in 1..n |->
                         [Scatter(yhat_col_names_no_qts[n - (k - 1)], column(k - 1), ds, t[column(k - 1)])
                            EXCEPT !.showlegend = TRUE, !.opacity = Frac(2 * (k - 1) + 25, 10 * (k - 1) + 25)]]]

\* every quantile trace filled to the one before it
plot_quantiles_filled(t, ds, colname, quantiles, highlight_forecast, step) ==
  LET column(i) == ColBand(colname, IF highlight_forecast # NoFocus THEN highlight_forecast ELSE step,
                           quantiles[i + 1])
  IN IF \E i \in 1..(Len(quantiles) - 1) : column(i) \notin DOMAIN t THEN Failed("KeyError")
     ELSE [raised |-> "none",
           traces |-> [i \in 1..(Len(quantiles) - 1) |->
                         [Scatter(column(i), column(i), ds, t[column(i)])
                            EXCEPT !.showlegend = TRUE, !.opacity = Frac(1, 5), !.fill = "tonexty"]]]

\* lines 100-129: the quantile traces
plot_quantiles(t, ds, colname, quantiles, highlight_forecast, step) ==
  LET column(i) == ColBand(colname, IF highlight_forecast # NoFocus THEN highlight_forecast ELSE step,
                           quantiles[i + 1])
  IN IF \E i \in 1..(Len(quantiles) - 1) : column(i) \notin DOMAIN t THEN Failed("KeyError")
     ELSE [raised |-> "none",
           traces |-> [i \in 1..(Len(quantiles) - 1) |->
                         [Scatter(column(i), column(i), ds, t[column(i)])
                            EXCEPT !.showlegend = TRUE, !.opacity = Frac(1, 5),
                                   !.fill = IF i = 1 THEN "unset" ELSE "tonexty"]]]

\* lines 131-164: the highlighted forecast
plot_highlight(t, ds, yhat_col_names_no_qts, highlight_forecast, line_per_origin) ==
  IF highlight_forecast = NoFocus THEN [raised |-> "none", traces |-> <<>>]
  ELSE IF line_per_origin
  THEN IF ColPoint(PF.origin_, 0) \notin DOMAIN t THEN Failed("KeyError")
       ELSE LET steps_from_last == Count(t[ColPoint(PF.origin_, 0)]) - highlight_forecast
                n == Len(yhat_col_names_no_qts)
                at(i) == PyIndex(Len(ds), 0 - (1 + i + steps_from_last))
                raised == FirstRaised([k \in 1..n |->
                                         IF at(k - 1) = 0 THEN "IndexError"
                                         ELSE IF ColPoint(PF.origin_, k - 1) \notin DOMAIN t THEN "KeyError"
                                         ELSE "none"])
            IN IF raised # "none" THEN Failed(raised)
               ELSE [raised |-> "none",
                     traces |-> [k \in 1..n |->
                                   [Scatter(yhat_col_names_no_qts[k], ColPoint(PF.origin_, k - 1),
                                            <<ds[at(k - 1)]>>, <<t[ColPoint(PF.origin_, k - 1)][at(k - 1)]>>)
                                      EXCEPT !.showlegend = TRUE, !.mode = "markers"]]]
  ELSE IF ColPoint(PF.yhat, highlight_forecast) \notin DOMAIN t THEN Failed("KeyError")
  ELSE LET column == ColPoint(PF.yhat, highlight_forecast)
           line == [Scatter(PF.Predicted, column, ds, t[column]) EXCEPT !.showlegend = TRUE]
       IN [raised |-> "none", traces |-> <<line, [line EXCEPT !.mode = "markers"]>>]

\* plot(fcst, quantiles, highlight_forecast=highlight_forecast, line_per_origin=line_per_origin);
\* columns is fcst.columns
plot(t, columns, quantiles, highlight_forecast, line_per_origin) ==
  LET ds == t[PF.ds]
      colname == IF line_per_origin THEN PF.origin_ ELSE PF.yhat
      step == IF line_per_origin THEN 0 ELSE 1
      yhat_col_names == SelectSeq(columns, LAMBDA c : Contains(c, colname))
      yhat_col_names_no_qts == SelectSeq(yhat_col_names, LAMBDA c : ~Contains(c, PF.Percent))
      lines == IF highlight_forecast = NoFocus \/ line_per_origin
               THEN plot_lines(t, ds, colname, yhat_col_names_no_qts, line_per_origin)
               ELSE [raised |-> "none", traces |-> <<>>]
      bands == plot_quantiles(t, ds, colname, quantiles, highlight_forecast, step)
      marks == plot_highlight(t, ds, yhat_col_names_no_qts, highlight_forecast, line_per_origin)
      actual == [Scatter(PF.Actual, PF.y, ds, t[PF.y]) EXCEPT !.showlegend = TRUE, !.mode = "markers"]
  IN IF lines.raised # "none" THEN lines
     ELSE IF bands.raised # "none" THEN bands
     ELSE IF marks.raised # "none" THEN marks
     ELSE [raised |-> "none", traces |-> lines.traces \o bands.traces \o marks.traces \o <<actual>>,
           names |-> yhat_col_names_no_qts, showlegend |-> TRUE, width |-> 700, height |-> 210]

\* the tables given to plot: ds, y, and n predictions yhat1 .. yhat<n> or
\* origin-0 .. origin-<n-1> with their quantile columns, the predictions
\* starting at row first
PlotTable(colname, h0, n, first) ==
  [columns |-> PlotColumnOrder(colname, h0, n),
   table |-> TableOf({<<PF.ds, [r \in 1..MaxRows |-> <<r>>]>>, <<PF.y, Cells(PF.y, 1)>>}
                     \cup {<<ColPoint(colname, h), HorizonCells(10 * h, first)>> : h \in h0..(h0 + n - 1)}
                     \cup {<<ColBand(colname, h, TableQuantiles[j]), HorizonCells(10 * h + j, first)>> :
                             h \in h0..(h0 + n - 1), j \in 1..Len(TableQuantiles)})]

PlotTables ==
  {PlotTable(PF.yhat, 1, n, first) : n \in 1..MaxColumns, first \in 1..MaxRows}
  \cup {PlotTable(PF.origin_, 0, n, first) : n \in 1..MaxColumns, first \in 1..MaxRows}

\* the quantiles arguments: the median, then any of the table's quantiles
PlotQuantiles == {<<500>>, <<500, 100>>, <<500, 100, 900>>}

InitPlot ==
  /\ m = NoModel
  /\ unknown_data_normalization = FALSE
  /\ pc = [c \in Callers |-> "idle"]
  /\ args = [c \in Callers |-> NoCall]
  /\ loc = [c \in Callers |-> NoLocals]
  /\ out = [c \in Callers |-> NoOutput]
  /\ ncalls = [c \in Callers |-> 0]
  /\ hist = [initial |-> FALSE, raised |-> FALSE, interfered |-> FALSE]
  /\ fcst \in {pt.table : pt \in PlotTables}
  /\ comp = NoCompCall
  /\ sw = NoScalarCall
  /\ props = NoPropsCall
  /\ season = NoSeasonCall

\* plot(fcst, quantiles, highlight_forecast=highlight_forecast, line_per_origin=line_per_origin)
Plot(quantiles, highlight_forecast, line_per_origin) ==
  /\ props.fn = "none"
  /\ props' = [fn |-> "plot", quantiles |-> quantiles, highlight_forecast |-> highlight_forecast,
               line_per_origin |-> line_per_origin,
               result |-> plot(fcst, (CHOOSE pt \in PlotTables : pt.table = fcst).columns, quantiles,
                               highlight_forecast, line_per_origin)]
  /\ UNCHANGED <<m, unknown_data_normalization, pc, args, loc, out, ncalls, hist, fcst, comp, sw, season>>

NextPlot ==
  /\ props.fn = "none"
  /\ \E quantiles \in PlotQuantiles, highlight_forecast \in {NoFocus} \cup 1..MaxColumns,
        line_per_origin \in BOOLEAN :
       Plot(quantiles, highlight_forecast, line_per_origin)

SpecPlot == InitPlot /\ [][NextPlot]_vars

\* the call of plot returned a figure
PlotReturned == props.fn = "plot" /\ props.result.raised = "none"

\* the positions of the quantile traces among the traces of the figure
QuantileTraces == {k \in 1..Len(props.result.traces) : Contains(props.result.traces[k].column, PF.Percent)}

\* the prefix of the plotted columns and the prediction the quantiles belong to
PlotColname == IF props.line_per_origin THEN PF.origin_ ELSE PF.yhat
PlotHorizon ==
  IF props.highlight_forecast # NoFocus THEN props.highlight_forecast
  ELSE IF props.line_per_origin THEN 0 ELSE 1

\* C24: in the figure of plot() there are exactly len(quantiles) - 1 quantile
\* traces, next to each other in quantile order, the first with no fill and
\* each later one filled to the trace before it; a highlighted forecast
\* without line_per_origin has a "Predicted" line and a "Predicted" marker
\* trace over yhat{highlight_forecast}; the "Actual" marker trace over y is
\* there exactly once, as the last trace.
C24_TracesOfPlot ==
  PlotReturned =>
    LET traces == props.result.traces
        k == Len(props.quantiles)
    IN /\ Cardinality(QuantileTraces) = k - 1
       /\ \A p \in QuantileTraces :
            LET i == Cardinality({q \in QuantileTraces : q < p}) + 1 IN
            /\ traces[p].column = ColBand(PlotColname, PlotHorizon, props.quantiles[i + 1])
            /\ traces[p].y = fcst[traces[p].column]
            /\ traces[p].fill = IF i = 1 THEN "unset" ELSE "tonexty"
            /\ i > 1 => p - 1 \in QuantileTraces
       /\ (props.highlight_forecast # NoFocus /\ ~props.line_per_origin =>
             \E p \in 1..(Len(traces) - 1) :
               /\ traces[p].name = PF.Predicted /\ traces[p].mode = "lines"
               /\ traces[p + 1].name = PF.Predicted /\ traces[p + 1].mode = "markers"
               /\ \A q \in {p, p + 1} :
                    /\ traces[q].column = ColYhat(props.highlight_forecast)
                    /\ traces[q].y = fcst[ColYhat(props.highlight_forecast)])
       /\ {p \in 1..Len(traces) : traces[p].name = PF.Actual} = {Len(traces)}
       /\ traces[Len(traces)].column = PF.y
       /\ traces[Len(traces)].y = fcst[PF.y]
       /\ traces[Len(traces)].mode = "markers"

C24_Witness ==
  /\ PlotReturned
  /\ Len(props.quantiles) = 3
  /\ props.highlight_forecast = 2 /\ ~props.line_per_origin
  /\ Len(props.result.traces) = 5

\* the positions of the point-prediction lines of the figure
PlotLines ==
  {k \in 1..Len(props.result.traces) :
     /\ props.result.traces[k].mode = "lines"
     /\ props.result.traces[k].name # PF.Predicted
     /\ k \notin QuantileTraces}

\* C29: when plot() draws the point-prediction lines, the name of every line
\* is the column its y values are read from, and no two lines have the same
\* opacity.
C29_LineNamedByColumn ==
  PlotReturned /\ (props.highlight_forecast = NoFocus \/ props.line_per_origin) =>
    LET traces == props.result.traces IN
    /\ Cardinality(PlotLines) = Len(props.result.names)
    /\ \A p \in PlotLines : traces[p].name = traces[p].column /\ traces[p].y = fcst[traces[p].name]
    /\ \A p, q \in PlotLines : p # q => ~FracEq(traces[p].opacity, traces[q].opacity)

\* the opacities of the lines alone
C29_DistinctOpacities ==
  PlotReturned =>
    \A p, q \in PlotLines : p # q => ~FracEq(props.result.traces[p].opacity, props.result.traces[q].opacity)

\* the period of the seasonality drawn, in hundredths of a day
PeriodDrawn == (CHOOSE c \in {m.config_season[k] : k \in 1..Len(m.config_season)} : c.name = props.comp_name).period

C26_GlobalUsesDefaultSeries ==
  (ncalls[1] > 0 /\ m.global_normalization) =>
     /\ loc[1].df_name = "__df__"
     /\ \A k \in 1..Len(out[1].lookups) : out[1].lookups[k].df_name = "__df__"
     /\ \A k \in 1..Len(out[1].panels) : out[1].panels[k].df_name \in {"__df__", NoName}
     /\ ~loc[1].overwriting_unknown_data_normalization

\* under global normalization no step writes the flag
C26_GlobalNeverWritesFlag ==
  [][m.global_normalization => unknown_data_normalization' = unknown_data_normalization]_vars

(***************************************************************************)
(* plot_components on models whose seasonalities and lagged regressors     *)
(* carry names chosen by the user: a name that is part of another one, and *)
(* names that hold a word the render loop looks for.                       *)
(***************************************************************************)
NamedConfigs ==
  { c \in ConfigSet({<<[name |-> PF.y, period |-> 150], [name |-> Names.weekly, period |-> 700]>>,
                     <<[name |-> Names.weekly, period |-> 700], [name |-> PF.y, period |-> 150]>>,
                     <<[name |-> PM.trend, period |-> 250]>>,
                     <<[name |-> PF.event, period |-> 250]>>},
                    {0, 2}, {<<500>>}, {1}, {<<>>}, {<<>>}, {<<>>},
                    {<<>>, <<[name |-> PF.uncertainty, as_scalar |-> FALSE, n_lags |-> 2]>>}) :
      /\ c.global_normalization /\ c.n_changepoints = 0
      /\ c.season_mode = "additive"
      /\ (c.config_lagged_regressors # <<>> => c.n_lags > 0) }

InitNames ==
  /\ m \in NamedConfigs
  /\ fcst \in CompTables(m)
  /\ comp = NoCompCall
  /\ sw = NoScalarCall
  /\ props = NoPropsCall
  /\ season = NoSeasonCall
  /\ unknown_data_normalization = FALSE
  /\ hist = [flag0 |-> FALSE, raised |-> FALSE, interfered |-> [p \in Callers |-> FALSE]]
  /\ pc = [p \in Callers |-> "idle"]
  /\ args = [p \in Callers |-> NoCall]
  /\ loc = [p \in Callers |-> NoLocals]
  /\ out = [p \in Callers |-> NoOutput]
  /\ ncalls = [p \in Callers |-> 0]

SpecNames == InitNames /\ [][NextComp]_vars

\* C27: the row index j = panel_order.index(lower-cased plot name) of every
\* descriptor is within 0 .. npanel - 1, and two descriptors have the same j
\* iff their lower-cased plot names are equal, also when one plot name is
\* part of another.
C27_RowIndexInRange ==
  comp.stage \in {"selected", "returned", "raised"} /\ comp.components # <<>> /\ comp.panel_order # <<>> =>
    \A k, k2 \in 1..Len(comp.components) :
      /\ 0 <= RowOf(k) - 1 /\ RowOf(k) - 1 < comp.npanel
      /\ (RowOf(k) = RowOf(k2)) = (Lower(comp.components[k].plot_name) = Lower(comp.components[k2].plot_name))

\* the rows of two descriptors alone
C27_SameRowIffSameName ==
  comp.stage \in {"selected", "returned", "raised"} /\ comp.components # <<>> /\ comp.panel_order # <<>> =>
    \A k, k2 \in 1..Len(comp.components) :
      (RowOf(k) = RowOf(k2)) = (Lower(comp.components[k].plot_name) = Lower(comp.components[k2].plot_name))

\* the renderer the render loop takes for a plot name (lines 396-420)
RendererTaken(c) ==
  LET branch == pc_branch(c.plot_name) IN
  IF branch \in {"forecast", "aggregate"} THEN "get_forecast_component_props"
  ELSE IF branch = "season" THEN "seasonality"
  ELSE IF branch = "multiforecast" THEN "get_multiforecast_component_props"
  ELSE "previous"

\* the renderer of the kind of a descriptor: the seasonality path, the
\* overlay renderer for the descriptors with num_overplot, else the
\* single-series renderer
RendererOfKind(c) ==
  IF PCKind(c) = "seasonality" THEN "seasonality"
  ELSE IF PCKind(c) \in {"ar", "lagged regressor", "residual"} /\ "num_overplot" \in DOMAIN c
  THEN "get_multiforecast_component_props"
  ELSE "get_forecast_component_props"

\* C28: every descriptor of a figure plot_components returns was drawn by the
\* renderer of its own kind, and every iteration bound its own trace_object.
C28_RenderedByOwnKind ==
  PCReturned =>
    \A k \in 1..Len(comp.components) : RendererTaken(comp.components[k]) = RendererOfKind(comp.components[k])

\* every iteration of the render loop takes one of the four branches
C28_FreshTraceObject ==
  comp.stage # "idle" => \A k \in 1..Len(comp.components) : pc_branch(comp.components[k].plot_name) # "none"
====
